---- MODULE Spec2Model ----
(***************************************************************************)
(* The authentication session manager of demo-ext-chat-app: the Token      *)
(* Store (localStorage), the Auth Server Client (useAuthServer), the       *)
(* Authenticated API Client (useExtensionApi) and the two callback         *)
(* controllers (CallbackHandler, OAuthCallbackProcessor).                  *)
(*                                                                         *)
(* JavaScript runs one task at a time.  An action of this module is the    *)
(* code that runs between two suspension points (await).  A promise that   *)
(* settles puts the continuations awaiting it on the microtask queue       *)
(* `ready`; every event (a network response, a timer, an effect firing)    *)
(* waits until that queue has been drained.                                *)
(***************************************************************************)
EXTENDS Integers, Sequences, FiniteSets, TLC

VARIABLES
  store,              \* localStorage: the five STORAGE_KEYS
  nonce,              \* number of random PKCE values drawn so far
  logins,             \* buildAuthUrl calls
  tokenReqs,          \* every request sent to the token endpoint, in order
  issued,             \* number of token responses the identity provider has issued
  exch,               \* exchangeCodeForTokens calls
  succeeded,          \* (code, state) pairs of the exchanges that succeeded
  refreshPromiseRef,  \* per useAuthServer instance: the flight in progress, 0 = null
  flights,            \* performTokenRefresh promises
  rcalls,             \* refreshAccessToken calls
  api,                \* sendApiRequest calls
  notified,           \* number of authStateChanged events dispatched
  navCount,           \* number of navigations to the application root
  ready,              \* microtask queue: continuations that are due to run
  controller,         \* which callback controller the page renders
  url,                \* the query parameters of window.location
  extClient,          \* extension.client: 0 = null, else the identity of the client
  runs,               \* firings of the controller's effect
  processingRef,      \* OAuthCallbackProcessor: processingRef.current is set
  processedRef,       \* OAuthCallbackProcessor: processedRef.current
  view,               \* what the controller shows: its ProcessingState
  alive,              \* the controller's component is mounted
  auth,               \* useAuth: its state as last set, and the events seen by then
  uinfo,              \* refreshUserInfo calls
  extension,          \* useExtension: its state
  detects             \* useExtension: detect and refreshServerState calls

storeVars   == <<store, nonce, logins>>
exchVars    == <<tokenReqs, issued, exch, succeeded>>
refreshVars == <<refreshPromiseRef, flights, rcalls>>
pageVars    == <<notified, navCount>>
hookVars    == <<auth, uinfo, extension, detects>>
componentVars == <<controller, url, extClient, runs, processingRef, processedRef,
                   view, alive>>
ctlVars     == <<componentVars, hookVars>>
vars == <<storeVars, exchVars, refreshVars, api, pageVars, ready, ctlVars>>

(***************************************************************************)
(* Bounds of the model.                                                    *)
(***************************************************************************)
MaxLogins  == 1     \* buildAuthUrl calls in one behaviour
MaxExch    == 2     \* exchangeCodeForTokens calls in one behaviour
MaxRCalls  == 2     \* refreshAccessToken calls in one behaviour
MaxApi     == 2     \* sendApiRequest calls in one behaviour
MaxClients == 2     \* extension clients that detection creates in one page load
MaxLogouts == 1     \* logouts that the user asks for in one behaviour
MaxUserInfo == 1    \* refreshUserInfo calls in one behaviour
MaxDetects == 3     \* detect, retry and refreshServerState calls in one behaviour

(***************************************************************************)
(* Values.  A storage key that is absent reads as null: Null for the       *)
(* string-valued tokens, 0 for the PKCE values, which are modelled by the  *)
(* number of the random draw that produced them (two draws never agree).   *)
(* The identity provider never issues the same token twice.                *)
(***************************************************************************)
Null == "null"
AccessToken(n)  == "A" \o ToString(n)
RefreshToken(n) == "R" \o ToString(n)
Codes == {"ABC", "XYZ"}
StaleNonce == 2 * MaxLogins + 1      \* a PKCE value left by an earlier page load
NonceInputs == 0 .. StaleNonce + 1   \* 0: the empty string; StaleNonce+1: forged

\* localStorage survives page loads: what a page load may find in it.
PersistedStores ==
  [access: {Null, AccessToken(0)}, refresh: {Null, RefreshToken(0)},
   verifier: {0, StaleNonce}, state: {0, StaleNonce},
   scope: {Null, "scope_resource"}]

\* isAuthenticated: !!localStorage.getItem(ACCESS_TOKEN)
isAuthenticated == store.access # Null

(***************************************************************************)
(* The microtask queue.                                                    *)
(***************************************************************************)
Task(k, id) == [k |-> k, id |-> id]
IsNext(k, id) == ready # <<>> /\ Head(ready) = Task(k, id)
\* The continuation of the caller that awaits a call, if a controller made it.
wake(queue, k, caller) ==
  IF caller = 0 THEN queue ELSE Append(queue, Task(k, caller))

(***************************************************************************)
(* buildAuthUrl (oauth-utils.ts).  It suspends once, in                    *)
(* generateCodeChallenge, between drawing the verifier and drawing the     *)
(* state.                                                                  *)
(***************************************************************************)
\* l. 47-57: read the resource scope, throw without it, draw the verifier.
buildAuthUrl_start ==
  /\ ready = <<>>
  /\ Len(logins) < MaxLogins
  /\ IF store.scope = Null
       THEN /\ logins' = Append(logins, [pc |-> "failed", verifier |-> 0, state |-> 0])
            /\ nonce' = nonce
       ELSE /\ logins' = Append(logins, [pc |-> "hashing", verifier |-> nonce + 1,
                                         state |-> 0])
            /\ nonce' = nonce + 1
  /\ UNCHANGED <<store, exchVars, refreshVars, api, pageVars, ready, ctlVars>>

\* Mutant: the state is put in the URL and not in the store.
pkceStored_verifierOnly(st, verifier, state) == [st EXCEPT !.verifier = verifier]

\* l. 66-67: the two setItem calls.
pkceStored(st, verifier, state) ==
  [st EXCEPT !.verifier = verifier, !.state = state]

\* l. 58-90: draw the state, store verifier and state, return the URL
\* (its state parameter is the state drawn here).
buildAuthUrl_resume(l) ==
  /\ ready = <<>>
  /\ l \in 1 .. Len(logins)
  /\ logins[l].pc = "hashing"
  /\ nonce' = nonce + 1
  /\ logins' = [logins EXCEPT ![l].pc = "done", ![l].state = nonce + 1]
  /\ store' = pkceStored(store, logins[l].verifier, nonce + 1)
  /\ UNCHANGED <<exchVars, refreshVars, api, pageVars, ready, ctlVars>>

(***************************************************************************)
(* exchangeCodeForTokens (useAuthServer.ts l. 21-96).                      *)
(***************************************************************************)
\* Mutant: the state of the callback is not compared with the stored one.
exchangeCheck_noStateCheck(st, state) ==
  IF st.verifier = 0 THEN "MissingVerifier" ELSE "fetch"

\* Mutant: the verifier is looked up before the state is compared.
exchangeCheck_verifierFirst(st, state) ==
  IF st.verifier = 0 THEN "MissingVerifier"
  ELSE IF st.state = 0 \/ state # st.state THEN "StateMismatch"
  ELSE "fetch"

\* Mutant: the verifier is not looked up before the request is built.
exchangeCheck_noVerifierCheck(st, state) ==
  IF st.state = 0 \/ state # st.state THEN "StateMismatch" ELSE "fetch"

\* l. 25-37: the checks made before the request.  `state !== storedState`
\* holds whenever nothing is stored (null is no string).
exchangeCheck(st, state) ==
  IF st.state = 0 \/ state # st.state THEN "StateMismatch"
  ELSE IF st.verifier = 0 THEN "MissingVerifier"
  ELSE "fetch"

\* The responses of the token endpoint to either grant: fetch rejects, a
\* non-success status, or a JSON body with or without the tokens.
TokenResponses ==
  [kind: {"neterr"}, status: {0}, access: {Null}, refresh: {Null}]
  \cup [kind: {"http"}, status: {400, 401, 500}, access: {Null}, refresh: {Null}]
  \cup [kind: {"json"}, status: {200}, access: {Null, AccessToken(issued + 1)},
        refresh: {Null, RefreshToken(issued + 1)}]

\* l. 61-74 and 92-95: every failure inside the try is rethrown as
\* "Token exchange failed: ...".
exchangeResult(resp) ==
  IF resp.kind = "json" /\ resp.access # Null THEN "ok" ELSE "TokenExchange"

\* Mutant: the stored state is not removed after the exchange.
exchangeStore_keepsState(st, resp) ==
  IF resp.kind = "json" /\ resp.access # Null
    THEN [st EXCEPT !.access = resp.access,
                    !.refresh = IF resp.refresh # Null THEN resp.refresh ELSE @,
                    !.verifier = 0, !.scope = Null]
    ELSE st

\* Mutant: the resource scope is not removed after the exchange.
exchangeStore_keepsScope(st, resp) ==
  IF resp.kind = "json" /\ resp.access # Null
    THEN [st EXCEPT !.access = resp.access,
                    !.refresh = IF resp.refresh # Null THEN resp.refresh ELSE @,
                    !.verifier = 0, !.state = 0]
    ELSE st

\* l. 76-88: the writes of a successful exchange.
exchangeStore(st, resp) ==
  IF exchangeResult(resp) = "ok"
    THEN [st EXCEPT !.access = resp.access,
                    !.refresh = IF resp.refresh # Null THEN resp.refresh ELSE @,
                    !.verifier = 0, !.state = 0, !.scope = Null]
    ELSE st

\* The call up to its first suspension point (l. 22-57).  A call that
\* throws here has rejected the promise its caller awaits.
exchangeCodeForTokens_call(caller, code, state) ==
  /\ Len(exch) < MaxExch
  /\ LET chk == exchangeCheck(store, state)
         sent == chk = "fetch"
     IN /\ exch' = Append(exch,
               [caller |-> caller, code |-> code, state |-> state,
                pc |-> IF sent THEN "awaitFetch" ELSE "done",
                result |-> IF sent THEN "pending" ELSE chk,
                req |-> IF sent THEN Len(tokenReqs) + 1 ELSE 0,
                afterSuccess |-> <<code, state>> \in succeeded])
        /\ tokenReqs' = IF sent
             THEN Append(tokenReqs, [grant |-> "authorization_code", code |-> code,
                                     verifier |-> store.verifier, refresh |-> Null,
                                     flight |-> 0])
             ELSE tokenReqs
        /\ ready' = IF sent THEN ready ELSE wake(ready, "afterExchange", caller)
  /\ UNCHANGED <<succeeded, issued>>

\* The rest of the call, once the token endpoint has answered (l. 59-95).
exchangeCodeForTokens_settle(e, resp) ==
  /\ e \in 1 .. Len(exch)
  /\ exch[e].pc = "awaitFetch"
  /\ exch' = [exch EXCEPT ![e].pc = "done", ![e].result = exchangeResult(resp)]
  /\ store' = exchangeStore(store, resp)
  /\ succeeded' = IF exchangeResult(resp) = "ok"
                    THEN succeeded \cup {<<exch[e].code, exch[e].state>>}
                    ELSE succeeded
  /\ issued' = IF resp.kind = "json" THEN issued + 1 ELSE issued
  /\ ready' = wake(ready, "afterExchange", exch[e].caller)
  /\ UNCHANGED tokenReqs

\* A caller outside the controllers (useAuth.processCallback, a test).
ExchangeDirect ==
  /\ ready = <<>>
  /\ \E code \in Codes, state \in NonceInputs :
       exchangeCodeForTokens_call(0, code, state)
  /\ UNCHANGED <<storeVars, refreshVars, api, pageVars, ctlVars>>

\* The token endpoint answers an authorization_code grant.
ExchangeResponse ==
  /\ ready = <<>>
  /\ \E e \in 1 .. Len(exch), resp \in TokenResponses :
       exchangeCodeForTokens_settle(e, resp)
  /\ UNCHANGED <<nonce, logins, refreshVars, api, pageVars, ctlVars>>

(***************************************************************************)
(* clearTokensAndRedirect (useAuthServer.ts l. 178-193): the five keys are *)
(* removed, authStateChanged is dispatched, the page navigates to the      *)
(* application root.                                                       *)
(***************************************************************************)
\* Mutant: only the two tokens are removed.
clearedStore_tokensOnly(st) == [st EXCEPT !.access = Null, !.refresh = Null]

clearedStore(st) ==
  [st EXCEPT !.access = Null, !.refresh = Null, !.scope = Null,
             !.verifier = 0, !.state = 0]

clearTokensAndRedirect ==
  /\ store' = clearedStore(store)
  /\ notified' = notified + 1
  /\ navCount' = navCount + 1

\* useAuth.logout (useAuth.ts l. 106-108): the user signs out.
useAuth_logout ==
  /\ ready = <<>>
  /\ navCount < MaxLogouts
  /\ clearTokensAndRedirect
  /\ UNCHANGED <<nonce, logins, exchVars, refreshVars, api, ready, ctlVars>>

(***************************************************************************)
(* refreshAccessToken (useAuthServer.ts l. 98-176).  Every call of the     *)
(* hook useAuthServer has a refreshPromiseRef of its own; the hook is      *)
(* called by useAuth (useAuth.ts l. 34), by the useExtensionApi inside     *)
(* useAuth (l. 35) and by the useExtensionApi of the page's component      *)
(* (ChatPage.tsx l. 15, AuthCard.tsx l. 205, App.tsx l. 25).               *)
(***************************************************************************)
Inst == {"authServer", "authApi", "pageApi"}
ApiInst == {"authApi", "pageApi"}

\* A refresh whose request has not been answered, or was never sent.
NoResp == [kind |-> "none", status |-> 0, access |-> Null, refresh |-> Null]

\* l. 130-165: what performTokenRefresh returns.
refreshResult(resp) ==
  IF resp.kind = "json" THEN resp.access ELSE Null

\* Mutant: only 401 is taken to mean that the refresh token is invalid.
refreshRejected_only401(resp) == resp.kind = "http" /\ resp.status = 401

\* l. 134-141: 400 and 401 mean the refresh token is invalid.
refreshRejected(resp) == resp.kind = "http" /\ resp.status \in {400, 401}

\* Mutant: every failure removes the tokens.
refreshStore_clearsOnFailure(st, resp) ==
  IF refreshResult(resp) # Null
    THEN [st EXCEPT !.access = resp.access,
                    !.refresh = IF resp.refresh # Null THEN resp.refresh ELSE @]
    ELSE [st EXCEPT !.access = Null, !.refresh = Null]

\* Mutant: the refresh token is overwritten by whatever the response has.
refreshStore_dropsRefresh(st, resp) ==
  IF refreshRejected(resp)
    THEN [st EXCEPT !.access = Null, !.refresh = Null]
  ELSE IF refreshResult(resp) # Null
    THEN [st EXCEPT !.access = resp.access, !.refresh = resp.refresh]
  ELSE st

\* l. 134-159: the writes of performTokenRefresh.
refreshStore(st, resp) ==
  IF refreshRejected(resp)
    THEN [st EXCEPT !.access = Null, !.refresh = Null]
  ELSE IF refreshResult(resp) # Null
    THEN [st EXCEPT !.access = resp.access,
                    !.refresh = IF resp.refresh # Null THEN resp.refresh ELSE @]
  ELSE st

\* Mutant: the in-flight promise is not consulted.
refreshJoins_never(inst) == FALSE

\* l. 100: is a refresh of this hook instance in flight?
refreshJoins(inst) == refreshPromiseRef[inst] # 0

\* Mutant: the request is sent without a refresh token, too.
refreshSends_always(rt) == TRUE

\* l. 105-110: with no refresh token stored performTokenRefresh returns null
\* at once; with one it sends the request.
refreshSends(rt) == rt # Null

\* The call up to its first suspension point: l. 100-101 when a refresh is
\* in flight, else l. 104-128, 168 and 171.  `during` notes the call of the
\* same instance that started a refresh and was still outstanding when this
\* one was made (0: none).
refreshAccessToken_callOn(caller, inst, queue) ==
  /\ Len(rcalls) < MaxRCalls
  /\ LET outstanding == {r \in 1 .. Len(rcalls) :
                           rcalls[r].inst = inst /\ rcalls[r].owner
                                            /\ rcalls[r].pc = "awaiting"}
         during == IF outstanding = {} THEN 0
                   ELSE CHOOSE r \in outstanding : \A q \in outstanding : r <= q
         new == Len(rcalls) + 1
     IN IF refreshJoins(inst)
          THEN LET f == refreshPromiseRef[inst] IN
               /\ rcalls' = Append(rcalls,
                    [inst |-> inst, flight |-> f, owner |-> FALSE, pc |-> "awaiting",
                     result |-> Null, caller |-> caller, during |-> during])
               /\ ready' = IF flights[f].pc = "settled"
                             THEN Append(queue, Task("refresh", new)) ELSE queue
               /\ UNCHANGED <<flights, refreshPromiseRef, tokenReqs>>
          ELSE LET f == Len(flights) + 1
                   rt == store.refresh
               IN
               /\ rcalls' = Append(rcalls,
                    [inst |-> inst, flight |-> f, owner |-> TRUE, pc |-> "awaiting",
                     result |-> Null, caller |-> caller, during |-> during])
               /\ flights' = Append(flights,
                    [inst |-> inst, rt |-> rt, result |-> Null, resp |-> NoResp,
                     pc |-> IF refreshSends(rt) THEN "fetching" ELSE "settled"])
               /\ tokenReqs' = IF ~refreshSends(rt) THEN tokenReqs
                    ELSE Append(tokenReqs, [grant |-> "refresh_token", code |-> Null,
                                            verifier |-> 0, refresh |-> rt, flight |-> f])
               /\ refreshPromiseRef' = [refreshPromiseRef EXCEPT ![inst] = f]
               /\ ready' = IF refreshSends(rt) THEN queue
                             ELSE Append(queue, Task("refresh", new))

\* The call made by a task that has nothing left to run after it.
refreshAccessToken_call(caller, inst) == refreshAccessToken_callOn(caller, inst, ready)

\* Mutant: the promise of a refresh wakes nobody.
waitersFrom_none(f, r) == <<>>

\* The calls awaiting a flight, in the order in which they began to await.
RECURSIVE waitersFrom(_, _)
waitersFrom(f, r) ==
  IF r > Len(rcalls) THEN <<>>
  ELSE (IF rcalls[r].flight = f /\ rcalls[r].pc = "awaiting"
          THEN <<Task("refresh", r)>> ELSE <<>>) \o waitersFrom(f, r + 1)

\* performTokenRefresh once the token endpoint has answered (l. 130-165).
performTokenRefresh_settle ==
  /\ ready = <<>>
  /\ \E f \in 1 .. Len(flights), resp \in TokenResponses :
       /\ flights[f].pc = "fetching"
       /\ flights' = [flights EXCEPT ![f].pc = "settled", ![f].resp = resp,
                                     ![f].result = refreshResult(resp)]
       /\ store' = refreshStore(store, resp)
       /\ notified' = IF refreshRejected(resp) THEN notified + 1 ELSE notified
       /\ issued' = IF resp.kind = "json" THEN issued + 1 ELSE issued
       /\ ready' = waitersFrom(f, 1)
  /\ UNCHANGED <<nonce, logins, tokenReqs, exch, succeeded, refreshPromiseRef, rcalls,
                 api, navCount, ctlVars>>

\* Mutant: the finally that clears the ref is missing.
clearsHandle_never(r) == FALSE

\* l. 170-175: the call that set refreshPromiseRef clears it in its finally;
\* a call that returned the ref at l. 101 has no finally to run.
clearsHandle(r) == rcalls[r].owner

\* A call resumes with the outcome of the flight (l. 101, or l. 171-175,
\* where the call that started the flight clears refreshPromiseRef), and
\* returns it to the sendApiRequest call that made it, if one did.
refreshAccessToken_resume ==
  \E r \in 1 .. Len(rcalls) :
    /\ IsNext("refresh", r)
    /\ rcalls' = [rcalls EXCEPT ![r].pc = "done",
                                ![r].result = flights[rcalls[r].flight].result]
    /\ refreshPromiseRef' = IF clearsHandle(r)
         THEN [refreshPromiseRef EXCEPT ![rcalls[r].inst] = 0]
         ELSE refreshPromiseRef
    /\ ready' = wake(Tail(ready), "afterRefresh", rcalls[r].caller)
    /\ UNCHANGED <<storeVars, exchVars, flights, api, pageVars, ctlVars>>

\* refreshUserInfo calls refreshAccessToken of useAuth's own useAuthServer
\* (useAuth.ts l. 132), in whatever task is running.
RefreshDirect ==
  /\ refreshAccessToken_call(0, "authServer")
  /\ UNCHANGED <<storeVars, issued, exch, succeeded, api, pageVars, ctlVars>>

(***************************************************************************)
(* useExtensionApi (useAuthServer.ts l. 391-538).                          *)
(***************************************************************************)
\* What extensionClient.sendApiRequest may do: resolve with an ApiResponse
\* of any status, or reject with a value of any shape.
NoErr == [obj |-> FALSE, status |-> 0, rstatus |-> 0, msg401 |-> FALSE]
SendErrors ==
  {[obj |-> TRUE,  status |-> 401, rstatus |-> 0,   msg401 |-> FALSE],
   [obj |-> TRUE,  status |-> 0,   rstatus |-> 401, msg401 |-> FALSE],
   [obj |-> TRUE,  status |-> 0,   rstatus |-> 0,   msg401 |-> TRUE],
   [obj |-> TRUE,  status |-> 500, rstatus |-> 0,   msg401 |-> FALSE],
   [obj |-> TRUE,  status |-> 0,   rstatus |-> 0,   msg401 |-> FALSE],
   [obj |-> FALSE, status |-> 0,   rstatus |-> 0,   msg401 |-> TRUE]}
SendOutcomes ==
  [ok: {TRUE}, status: {200, 401}, err: {NoErr}]
  \cup [ok: {FALSE}, status: {0}, err: SendErrors]

\* l. 394-410.
is401Error(error) ==
  error.obj /\ (error.status = 401 \/ error.rstatus = 401 \/ error.msg401)

\* What a send did, as the call's record keeps it.
outcomeClass(out) ==
  IF out.ok THEN (IF out.status = 401 THEN "response401" ELSE "response")
  ELSE IF is401Error(out.err) THEN "error401" ELSE "error"

\* Headers: the Authorization header and one other, X; Null = absent.  The
\* value of a bearer header is modelled by its token.
NoHeaders == [Authorization |-> Null, X |-> Null]
CallerHeaders == [Authorization: {Null, "caller"}, X: {Null, "x"}]

\* l. 195-204: a copy of the caller's headers, with Authorization set to the
\* bearer of the stored access token when there is one.
buildAuthHeadersWith(additionalHeaders, st) ==
  [additionalHeaders EXCEPT
     !.Authorization = IF st.access # Null THEN st.access ELSE @]

\* l. 195-204, called without headers: the bearer token put in the
\* Authorization header, Null when there is none.
buildAuthHeaders(st) == buildAuthHeadersWith(NoHeaders, st).Authorization

\* Mutant: the retry is sent with the headers of the first send.
retryHeaders_ofFirstSend(first, additionalHeaders, st) == first

\* l. 434: the headers of the retry are built anew.
retryHeaders(first, additionalHeaders, st) ==
  buildAuthHeadersWith(additionalHeaders, st)

\* l. 419-426: the call up to the first send; `queue` is what is left to
\* run after the task that makes the call.
sendApiRequest_callWith(caller, inst, client, queue, additionalHeaders) ==
  LET headers == buildAuthHeadersWith(additionalHeaders, store) IN
  /\ Len(api) < MaxApi
  /\ api' = Append(api,
       [kind |-> "api", caller |-> caller, inst |-> inst,
        pc |-> IF client = 0 THEN "done" ELSE "send1",
        sends |-> IF client = 0 THEN 0 ELSE 1,
        refreshes |-> 0, logouts |-> 0,
        hdr1 |-> IF client = 0 THEN Null ELSE headers.Authorization, hdr2 |-> Null,
        how |-> IF client = 0 THEN "thrown" ELSE "pending",
        attempt |-> 0, first |-> "none", retry |-> "none",
        add |-> additionalHeaders,
        hx1 |-> IF client = 0 THEN Null ELSE headers.X, hx2 |-> Null])
  /\ ready' = IF client = 0 THEN wake(queue, "afterUserInfo", caller) ELSE queue

\* The call as every caller in the repository makes it: without headers.
sendApiRequest_call(caller, inst, client, queue) ==
  sendApiRequest_callWith(caller, inst, client, queue, NoHeaders)

\* Mutant: every rejection of the first send is followed by a refresh.
firstSendNeedsRefresh_always(out) == ~out.ok

\* l. 428-429: the first send was rejected with what is401Error recognises.
firstSendNeedsRefresh(out) == ~out.ok /\ is401Error(out.err)

\* Mutant: a 401 of the retry does not force the logout.
retryForcesLogout_never(out) == FALSE

\* Mutant: every outcome of the retry forces the logout.
retryForcesLogout_always(out) == TRUE

\* l. 439-443: the retry was rejected with what is401Error recognises.
retryForcesLogout(out) == ~out.ok /\ is401Error(out.err)

\* Mutant: a refresh that gave no token is followed by a retry all the same.
retryAfterRefresh_always(newToken) == TRUE

\* l. 433: `if (newToken)`, the retry is made.
retryAfterRefresh(newToken) == newToken # Null

\* Mutant: a refresh that gave no token does not force the logout.
logoutAfterRefresh_never(newToken) == FALSE

\* l. 446-449: the else of `if (newToken)`, clearTokensAndRedirect is called.
logoutAfterRefresh(newToken) == newToken = Null

\* l. 426-432: the first send settles.
sendApiRequest_settle1(a, out) ==
  /\ ready = <<>>
  /\ api[a].kind = "api"
  /\ api[a].pc = "send1"
  /\ IF firstSendNeedsRefresh(out)
       THEN /\ api' = [api EXCEPT ![a].pc = "refreshing", ![a].first = outcomeClass(out),
                                  ![a].refreshes = @ + 1]
            /\ refreshAccessToken_call(a, api[a].inst)
       ELSE /\ api' = [api EXCEPT ![a].pc = "done", ![a].first = outcomeClass(out),
                                  ![a].how = IF out.ok THEN "returned" ELSE "thrown",
                                  ![a].attempt = 1]
            /\ ready' = wake(ready, "afterUserInfo", api[a].caller)
            /\ UNCHANGED <<refreshVars, tokenReqs>>
  /\ UNCHANGED <<storeVars, issued, exch, succeeded, pageVars, ctlVars>>

\* l. 432-451: refreshAccessToken has returned to the call.
sendApiRequest_afterRefresh(a) ==
  /\ IsNext("afterRefresh", a)
  /\ api[a].kind = "api"
  /\ api[a].pc = "refreshing"
  /\ LET r == CHOOSE r \in 1 .. Len(rcalls) : rcalls[r].caller = a
         newToken == rcalls[r].result
         retry == retryAfterRefresh(newToken)
         logout == logoutAfterRefresh(newToken)
         newHeaders == retryHeaders([Authorization |-> api[a].hdr1, X |-> api[a].hx1],
                                    api[a].add, store)
     IN /\ api' = [api EXCEPT
              ![a].pc = IF retry THEN "send2" ELSE "done",
              ![a].sends = IF retry THEN @ + 1 ELSE @,
              ![a].hdr2 = IF retry THEN newHeaders.Authorization ELSE @,
              ![a].hx2 = IF retry THEN newHeaders.X ELSE @,
              ![a].logouts = IF logout THEN @ + 1 ELSE @,
              ![a].how = IF retry THEN @ ELSE "thrown",
              ![a].attempt = IF retry THEN @ ELSE 1]
        /\ ready' = IF retry THEN Tail(ready)
                     ELSE wake(Tail(ready), "afterUserInfo", api[a].caller)
        /\ IF logout THEN clearTokensAndRedirect ELSE UNCHANGED <<store, pageVars>>
  /\ UNCHANGED <<nonce, logins, exchVars, refreshVars, ctlVars>>

\* l. 437-445: the retry settles.
sendApiRequest_settle2(a, out) ==
  /\ ready = <<>>
  /\ api[a].kind = "api"
  /\ api[a].pc = "send2"
  /\ api' = [api EXCEPT ![a].pc = "done", ![a].retry = outcomeClass(out),
                        ![a].how = IF out.ok THEN "returned" ELSE "thrown",
                        ![a].attempt = 2,
                        ![a].logouts = IF retryForcesLogout(out) THEN @ + 1 ELSE @]
  /\ IF retryForcesLogout(out)
       THEN clearTokensAndRedirect
       ELSE UNCHANGED <<store, pageVars>>
  /\ ready' = wake(ready, "afterUserInfo", api[a].caller)
  /\ UNCHANGED <<nonce, logins, exchVars, refreshVars, ctlVars>>

\* A caller that passes headers of its own.
ApiWithHeaders ==
  /\ ready = <<>>
  /\ \E inst \in ApiInst, additionalHeaders \in CallerHeaders :
       sendApiRequest_callWith(0, inst, 1, ready, additionalHeaders)
  /\ UNCHANGED <<storeVars, exchVars, refreshVars, pageVars, ctlVars>>

\* A component calls sendApiRequest of its useExtensionApi.
ApiDirect ==
  /\ ready = <<>>
  /\ \E inst \in ApiInst, client \in {0, 1} : sendApiRequest_call(0, inst, client, ready)
  /\ UNCHANGED <<storeVars, exchVars, refreshVars, pageVars, ctlVars>>

\* The extension answers a send.
SendSettles ==
  \E a \in 1 .. Len(api), out \in SendOutcomes :
    \/ sendApiRequest_settle1(a, out)
    \/ sendApiRequest_settle2(a, out)

ApiAfterRefresh == \E a \in 1 .. Len(api) : sendApiRequest_afterRefresh(a)

(***************************************************************************)
(* requestResourceAccess (useAuthServer.ts l. 501-528): one send through   *)
(* the extension client itself, outside sendApiRequest.                    *)
(***************************************************************************)
\* What the extension may answer: a response of any status whose body has a
\* scope or has none, or a rejection.
AccessOutcomes ==
  [ok: {TRUE}, status: {200, 401}, scope: {Null, "scope_granted"}]
  \cup [ok: {FALSE}, status: {0, 401}, scope: {Null}]

accessGranted_always(out) == TRUE

\* l. 514-516: the send resolved and response.body.scope is truthy.
accessGranted(out) == out.ok /\ out.scope # Null

accessClass(out) ==
  IF ~out.ok THEN IF out.status = 401 THEN "error401" ELSE "error"
  ELSE IF out.scope = Null THEN "noscope"
  ELSE "scope"

\* l. 502-512: without a client the call throws; with one it sends the
\* request without headers.
requestResourceAccess_call(client) ==
  /\ ready = <<>>
  /\ Len(api) < MaxApi
  /\ api' = Append(api,
       [kind |-> "access", caller |-> 0, inst |-> "authApi",
        pc |-> IF client = 0 THEN "done" ELSE "send1",
        sends |-> IF client = 0 THEN 0 ELSE 1,
        refreshes |-> 0, logouts |-> 0, hdr1 |-> Null, hdr2 |-> Null,
        how |-> IF client = 0 THEN "thrown" ELSE "pending",
        attempt |-> 0, first |-> "none", retry |-> "none"])
  /\ UNCHANGED <<storeVars, exchVars, refreshVars, pageVars, ready, ctlVars>>

\* l. 514-527: the send settles.
requestResourceAccess_settle(a, out) ==
  /\ ready = <<>>
  /\ api[a].kind = "access"
  /\ api[a].pc = "send1"
  /\ api' = [api EXCEPT ![a].pc = "done", ![a].first = accessClass(out),
                        ![a].how = IF accessGranted(out) THEN "returned" ELSE "thrown",
                        ![a].attempt = 1]
  /\ store' = IF accessGranted(out) THEN [store EXCEPT !.scope = out.scope] ELSE store
  /\ UNCHANGED <<nonce, logins, exchVars, refreshVars, pageVars, ready, ctlVars>>

\* useAuth.login calls requestResourceAccess (useAuth.ts l. 88).
AccessDirect == \E client \in {0, 1} : requestResourceAccess_call(client)

AccessSettles ==
  \E a \in 1 .. Len(api), out \in AccessOutcomes : requestResourceAccess_settle(a, out)

(***************************************************************************)
(* sendStreamRequest (useAuthServer.ts l. 457-499).  The send resolves     *)
(* with the iterable of the chunks or rejects; the chunks, and whatever    *)
(* status they carry, are read by the caller after the call has returned.  *)
(***************************************************************************)
StreamOutcomes == {out \in SendOutcomes : out.ok => out.status = 200}

\* l. 464-470: the call up to the first send.
sendStreamRequest_call(caller, inst, client, queue) ==
  /\ Len(api) < MaxApi
  /\ api' = Append(api,
       [kind |-> "stream", caller |-> caller, inst |-> inst,
        pc |-> IF client = 0 THEN "done" ELSE "send1",
        sends |-> IF client = 0 THEN 0 ELSE 1,
        refreshes |-> 0, logouts |-> 0,
        hdr1 |-> IF client = 0 THEN Null ELSE buildAuthHeaders(store), hdr2 |-> Null,
        how |-> IF client = 0 THEN "thrown" ELSE "pending",
        attempt |-> 0, first |-> "none", retry |-> "none"])
  /\ ready' = IF client = 0 THEN wake(queue, "afterUserInfo", caller) ELSE queue

\* l. 472-473: the first send was rejected with what is401Error recognises.
streamNeedsRefresh(out) == ~out.ok /\ is401Error(out.err)

\* l. 477: `if (newToken)`, the retry is made.
streamRetryAfterRefresh(newToken) == newToken # Null

\* l. 490-493: the else of `if (newToken)`.
streamLogoutAfterRefresh(newToken) == newToken = Null

\* Mutant: a 401 of the retry of a stream request does not force the logout.
streamRetryForcesLogout_never(out) == FALSE

\* l. 483-487: the retry was rejected with what is401Error recognises.
streamRetryForcesLogout(out) == ~out.ok /\ is401Error(out.err)

\* l. 470-476: the first send settles.
sendStreamRequest_settle1(a, out) ==
  /\ ready = <<>>
  /\ api[a].kind = "stream"
  /\ api[a].pc = "send1"
  /\ IF streamNeedsRefresh(out)
       THEN /\ api' = [api EXCEPT ![a].pc = "refreshing", ![a].first = outcomeClass(out),
                                  ![a].refreshes = @ + 1]
            /\ refreshAccessToken_call(a, api[a].inst)
       ELSE /\ api' = [api EXCEPT ![a].pc = "done", ![a].first = outcomeClass(out),
                                  ![a].how = IF out.ok THEN "returned" ELSE "thrown",
                                  ![a].attempt = 1]
            /\ ready' = wake(ready, "afterUserInfo", api[a].caller)
            /\ UNCHANGED <<refreshVars, tokenReqs>>
  /\ UNCHANGED <<storeVars, issued, exch, succeeded, pageVars, ctlVars>>

\* l. 476-495: refreshAccessToken has returned to the call.
sendStreamRequest_afterRefresh(a) ==
  /\ IsNext("afterRefresh", a)
  /\ api[a].kind = "stream"
  /\ api[a].pc = "refreshing"
  /\ LET r == CHOOSE r \in 1 .. Len(rcalls) : rcalls[r].caller = a
         newToken == rcalls[r].result
         retry == streamRetryAfterRefresh(newToken)
         logout == streamLogoutAfterRefresh(newToken)
     IN /\ api' = [api EXCEPT
              ![a].pc = IF retry THEN "send2" ELSE "done",
              ![a].sends = IF retry THEN @ + 1 ELSE @,
              ![a].hdr2 = IF retry THEN buildAuthHeaders(store) ELSE @,
              ![a].logouts = IF logout THEN @ + 1 ELSE @,
              ![a].how = IF retry THEN @ ELSE "thrown",
              ![a].attempt = IF retry THEN @ ELSE 1]
        /\ ready' = IF retry THEN Tail(ready)
                     ELSE wake(Tail(ready), "afterUserInfo", api[a].caller)
        /\ IF logout THEN clearTokensAndRedirect ELSE UNCHANGED <<store, pageVars>>
  /\ UNCHANGED <<nonce, logins, exchVars, refreshVars, ctlVars>>

\* l. 481-489: the retry settles.
sendStreamRequest_settle2(a, out) ==
  /\ ready = <<>>
  /\ api[a].kind = "stream"
  /\ api[a].pc = "send2"
  /\ api' = [api EXCEPT ![a].pc = "done", ![a].retry = outcomeClass(out),
                        ![a].how = IF out.ok THEN "returned" ELSE "thrown",
                        ![a].attempt = 2,
                        ![a].logouts = IF streamRetryForcesLogout(out) THEN @ + 1 ELSE @]
  /\ IF streamRetryForcesLogout(out)
       THEN clearTokensAndRedirect
       ELSE UNCHANGED <<store, pageVars>>
  /\ ready' = wake(ready, "afterUserInfo", api[a].caller)
  /\ UNCHANGED <<nonce, logins, exchVars, refreshVars, ctlVars>>

\* The chat page starts a completion (ChatPage.tsx l. 15, chatCompletion).
StreamDirect ==
  /\ ready = <<>>
  /\ \E client \in {0, 1} : sendStreamRequest_call(0, "pageApi", client, ready)
  /\ UNCHANGED <<storeVars, exchVars, refreshVars, pageVars, ctlVars>>

\* The extension answers the send of a stream request.
StreamSettles ==
  \E a \in 1 .. Len(api), out \in StreamOutcomes :
    \/ sendStreamRequest_settle1(a, out)
    \/ sendStreamRequest_settle2(a, out)

StreamAfterRefresh == \E a \in 1 .. Len(api) : sendStreamRequest_afterRefresh(a)

(***************************************************************************)
(* The callback controllers: CallbackHandler (AuthCard.tsx l. 202-429) and *)
(* OAuthCallbackProcessor (App.tsx l. 21-125).  Each is one effect that    *)
(* fires when the component mounts and again whenever one of its           *)
(* dependencies changes identity.  authServer is memoised for the life of  *)
(* the component; extensionApi changes exactly when extension.client       *)
(* does.  A firing is a record of `runs`: the client its closure captured, *)
(* the closure's `mounted` flag and how far its processing has got.        *)
(***************************************************************************)
Controllers == {"CallbackHandler", "OAuthCallbackProcessor"}

NoParams == [code |-> Null, state |-> 0, error |-> Null, description |-> Null]

\* The query strings the identity provider, or anybody else, may send the
\* browser to the callback page with.  A code of Null is a parameter that is
\* absent, "" one that is present and empty; a state of 0 is either.
CallbackUrls ==
  [code: {"ABC"}, state: {0, StaleNonce, StaleNonce + 1}, error: {Null},
   description: {Null}]
  \cup [code: {Null, ""}, state: {StaleNonce}, error: {Null}, description: {Null}]
  \cup [code: {Null}, state: {0}, error: {"access_denied", "server_error"},
        description: {Null, "denied by user"}]

\* What the page load of a callback finds in localStorage.
CallbackStores ==
  {st \in PersistedStores :
     st.access = Null /\ st.refresh = Null /\ st.scope = "scope_resource"}

\* AuthCard.tsx l. 235-248, App.tsx l. 49-62: the message of the error the
\* validation throws, "ok" when it throws none.
validateCallback(u) ==
  IF u.error # Null
    THEN LET errorMessage == IF u.description # Null THEN u.description ELSE u.error
         IN IF errorMessage = "access_denied"
              THEN "User denied access to the application"
              ELSE "OAuth error: " \o errorMessage
  ELSE IF u.code \in {Null, ""} THEN "Authorization code not found in callback URL"
  ELSE IF u.state = 0 THEN "State parameter not found in callback URL"
  ELSE "ok"

\* AuthCard.tsx l. 298-299.
hasCallbackParams == url.code # Null \/ url.error # Null

Reloaded == view.status = "reloaded"

exchangeOf(run) == CHOOSE e \in 1 .. Len(exch) : exch[e].caller = run
userInfoOf(run) == CHOOSE a \in 1 .. Len(api) : api[a].caller = run

newRun(c, pc) == [client |-> c, mounted |-> TRUE, pc |-> pc]

\* AuthCard.tsx l. 308-311: the cleanup of the previous firing.
cleanedUp ==
  [i \in 1 .. Len(runs) |-> [runs[i] EXCEPT !.mounted = FALSE]]

\* AuthCard.tsx l. 301: does this firing call processCallback?
CallbackHandler_starts(c) == hasCallbackParams /\ c # 0

\* AuthCard.tsx l. 219-312: one firing of the effect of CallbackHandler,
\* with the part of processCallback that runs before its first await.
CallbackHandler_effect(c) ==
  LET run == Len(runs) + 1
      msg == validateCallback(url)
  IN
  /\ UNCHANGED <<processingRef, processedRef>>
  /\ IF ~CallbackHandler_starts(c)
       THEN /\ runs' = Append(cleanedUp, newRun(c, "idle"))
            /\ view' = IF c = 0 THEN [status |-> "loading", message |-> Null] ELSE view
            /\ UNCHANGED <<exch, tokenReqs, ready>>
     ELSE IF msg # "ok"
       THEN /\ runs' = Append(cleanedUp, newRun(c, "failed"))
            /\ view' = [status |-> "error", message |-> msg]
            /\ UNCHANGED <<exch, tokenReqs, ready>>
       ELSE /\ runs' = Append(cleanedUp, newRun(c, "exchange"))
            /\ view' = [status |-> "processing", message |-> Null]
            /\ exchangeCodeForTokens_call(run, url.code, url.state)

\* App.tsx l. 34: is the firing let through?
OAuthCallbackProcessor_starts == ~(processedRef \/ processingRef)

\* App.tsx l. 86-106: the catch and finally of processOAuthCallback.  The
\* message goes to the landing-error storage; the page reloads.
OAuthCallbackProcessor_fail(msg) ==
  /\ processedRef' = TRUE
  /\ url' = NoParams
  /\ view' = [status |-> "reloaded", message |-> msg]

\* App.tsx l. 32-111: one firing of the effect of OAuthCallbackProcessor,
\* with the part of processOAuthCallback that runs before its first await.
\* l. 110 stores the promise whatever became of the call.
OAuthCallbackProcessor_effect(c) ==
  LET run == Len(runs) + 1
      msg == validateCallback(url)
  IN
  IF ~OAuthCallbackProcessor_starts
    THEN /\ runs' = Append(runs, newRun(c, "idle"))
         /\ UNCHANGED <<exch, tokenReqs, ready, url, view, processingRef, processedRef>>
  ELSE IF msg # "ok"
    THEN /\ runs' = Append(runs, newRun(c, "failed"))
         /\ OAuthCallbackProcessor_fail(msg)
         /\ processingRef' = TRUE
         /\ UNCHANGED <<exch, tokenReqs, ready>>
    ELSE /\ runs' = Append(runs, newRun(c, "exchange"))
         /\ processingRef' = TRUE
         /\ exchangeCodeForTokens_call(run, url.code, url.state)
         /\ UNCHANGED <<url, view, processedRef>>

effect(c) ==
  /\ ready = <<>>
  /\ ~Reloaded
  /\ alive
  /\ IF controller = "CallbackHandler"
       THEN CallbackHandler_effect(c) /\ UNCHANGED url
       ELSE OAuthCallbackProcessor_effect(c)
  /\ UNCHANGED <<storeVars, succeeded, issued, refreshVars, api, pageVars, controller,
                 alive, hookVars>>

\* The component mounts in the commit in which ExtensionProvider does, when
\* useExtension still holds its initial state, client null (l. 260-266).
Mount ==
  /\ runs = <<>>
  /\ extClient' = extClient
  /\ effect(extClient)

\* useExtension.detect settles (useAuthServer.ts l. 267-318): every
\* loadExtensionClient that succeeds makes a new ExtensionClient
\* (libbodhiext.ts l. 150-196), a failure sets the client to null.  The
\* render that follows fires the effect when the client has changed.
clientsMade ==
  LET ids == {runs[i].client : i \in 1 .. Len(runs)} \cup {0}
  IN CHOOSE m \in ids : \A i \in ids : i <= m

detect_settle ==
  /\ runs # <<>>
  /\ \E c \in {0, clientsMade + 1} :
       /\ c # extClient
       /\ c <= MaxClients
       /\ extClient' = c
       /\ effect(c)

exchangeSucceeded_always(e) == TRUE

\* AuthCard.tsx l. 258, App.tsx l. 67: the await of exchangeCodeForTokens
\* returns; when the call throws, control goes to the catch.
exchangeSucceeded(e) == exch[e].result = "ok"

\* AuthCard.tsx l. 258-294: processCallback after exchangeCodeForTokens.
CallbackHandler_afterExchange(run) ==
  LET e == exchangeOf(run) IN
  /\ UNCHANGED <<url, processingRef, processedRef, store, pageVars>>
  /\ IF ~runs[run].mounted
       THEN /\ runs' = [runs EXCEPT ![run].pc = "dropped"]
            /\ ready' = Tail(ready)
            /\ UNCHANGED <<api, view>>
     ELSE IF exchangeSucceeded(e)
       THEN /\ runs' = [runs EXCEPT ![run].pc = "userinfo"]
            /\ sendApiRequest_call(run, "pageApi", runs[run].client, Tail(ready))
            /\ view' = [status |-> "processing", message |-> Null]
       ELSE /\ runs' = [runs EXCEPT ![run].pc = "failed"]
            /\ ready' = Tail(ready)
            /\ view' = [status |-> "error", message |-> exch[e].result]
            /\ UNCHANGED api

\* App.tsx l. 67-106: processOAuthCallback after exchangeCodeForTokens.
OAuthCallbackProcessor_afterExchange(run) ==
  LET e == exchangeOf(run) IN
  /\ UNCHANGED <<store, pageVars>>
  /\ IF exchangeSucceeded(e)
       THEN /\ runs' = [runs EXCEPT ![run].pc = "userinfo"]
            /\ sendApiRequest_call(run, "pageApi", runs[run].client, Tail(ready))
            /\ UNCHANGED <<url, view, processingRef, processedRef>>
       ELSE /\ runs' = [runs EXCEPT ![run].pc = "failed"]
            /\ ready' = Tail(ready)
            /\ OAuthCallbackProcessor_fail(exch[e].result)
            /\ processingRef' = FALSE
            /\ UNCHANGED api

controller_afterExchange ==
  \E run \in 1 .. Len(runs) :
    /\ IsNext("afterExchange", run)
    /\ IF controller = "CallbackHandler"
         THEN CallbackHandler_afterExchange(run)
         ELSE OAuthCallbackProcessor_afterExchange(run)
    /\ UNCHANGED <<nonce, logins, exchVars, refreshVars, controller, extClient, alive,
                   hookVars>>

\* AuthCard.tsx l. 269-294: processCallback after sendApiRequest.
CallbackHandler_afterUserInfo(run) ==
  LET a == userInfoOf(run) IN
  /\ UNCHANGED <<url, processingRef, processedRef>>
  /\ IF ~runs[run].mounted
       THEN /\ runs' = [runs EXCEPT ![run].pc = "dropped"]
            /\ UNCHANGED view
     ELSE IF api[a].how = "returned"
       THEN /\ runs' = [runs EXCEPT ![run].pc = "done"]
            /\ view' = [status |-> "success", message |-> Null]
       ELSE /\ runs' = [runs EXCEPT ![run].pc = "failed"]
            /\ view' = [status |-> "error", message |-> "user info"]

\* App.tsx l. 71-106: processOAuthCallback after sendApiRequest.
OAuthCallbackProcessor_afterUserInfo(run) ==
  LET a == userInfoOf(run) IN
  /\ processingRef' = FALSE
  /\ IF api[a].how = "returned"
       THEN /\ runs' = [runs EXCEPT ![run].pc = "done"]
            /\ processedRef' = TRUE
            /\ url' = NoParams
            /\ view' = [status |-> "success", message |-> Null]
       ELSE /\ runs' = [runs EXCEPT ![run].pc = "failed"]
            /\ OAuthCallbackProcessor_fail("user info")

controller_afterUserInfo ==
  \E run \in 1 .. Len(runs) :
    /\ IsNext("afterUserInfo", run)
    /\ ready' = Tail(ready)
    /\ IF controller = "CallbackHandler"
         THEN CallbackHandler_afterUserInfo(run)
         ELSE OAuthCallbackProcessor_afterUserInfo(run)
    /\ UNCHANGED <<storeVars, exchVars, refreshVars, api, pageVars, controller, extClient,
                   alive, hookVars>>

\* AuthCard.tsx l. 280-285: the timer set on success takes the page to the
\* root unless the firing has been cleaned up.
redirectTimer ==
  /\ ready = <<>>
  /\ \E run \in 1 .. Len(runs) :
       /\ runs[run].pc = "done"
       /\ controller = "CallbackHandler"
       /\ runs' = [runs EXCEPT ![run].pc = "redirected"]
       /\ navCount' = IF runs[run].mounted THEN navCount + 1 ELSE navCount
  /\ UNCHANGED <<storeVars, exchVars, refreshVars, api, notified, ready, controller, url,
                 extClient, processingRef, processedRef, view, alive, hookVars>>

\* React unmounts the component.  CallbackHandler's effect has a cleanup
\* (AuthCard.tsx l. 308-311), which clears the flag of its last firing;
\* OAuthCallbackProcessor's effect returns none (App.tsx l. 32-111), and what
\* it started goes on.
Unmount ==
  /\ ready = <<>>
  /\ ~Reloaded
  /\ alive
  /\ runs # <<>>
  /\ alive' = FALSE
  /\ runs' = IF controller = "CallbackHandler" THEN cleanedUp ELSE runs
  /\ UNCHANGED <<storeVars, exchVars, refreshVars, api, pageVars, ready, controller, url,
                 extClient, processingRef, processedRef, view, hookVars>>

(***************************************************************************)
(* useAuth (useAuth.ts): its state and refreshUserInfo.                    *)
(***************************************************************************)
\* l. 27-32: the state useAuth starts with.
InitialAuthState ==
  [status |-> "idle", isAuthenticated |-> FALSE, userInfo |-> Null, error |-> Null]

\* l. 39-48: checkAuthStatus, on mount and at every authStateChanged event.
checkAuthStatus(prev, authenticated) ==
  [status |-> IF authenticated THEN "authenticated" ELSE "idle",
   isAuthenticated |-> authenticated,
   userInfo |-> IF authenticated THEN prev.userInfo ELSE Null,
   error |-> IF authenticated THEN prev.error ELSE Null]

\* l. 146-152, 168-174: the state refreshUserInfo sets before it logs out.
loggedOutState(prev) ==
  [prev EXCEPT !.status = "idle", !.isAuthenticated = FALSE, !.userInfo = Null,
               !.error = Null]

\* The state of useAuth now.  The listener of authStateChanged (l. 61-63)
\* runs inside dispatchEvent, and both places that dispatch the event do so
\* after they removed the access token (useAuthServer.ts l. 138-140,
\* l. 179-189): the listener finds nobody signed in.
authState ==
  IF notified > auth.seen THEN checkAuthStatus(auth.state, FALSE) ELSE auth.state

\* What the await of sendApiRequest gives refreshUserInfo: the call threw,
\* or it returned a body with logged_in true or false.
responsesOf(a) ==
  IF api[a].how = "thrown" THEN {"thrown"} ELSE {"logged_in", "logged_out"}

\* A call: its position, the sendApiRequest and refreshAccessToken calls it
\* made, what they gave, the logouts it made, and for the claims the
\* navigations counted when it began and the tokens stored when the server
\* said logged out.
newUserInfoCall(client, pc, a) ==
  [pc |-> pc, client |-> client, a1 |-> a, a2 |-> 0, r |-> 0, first |-> Null,
   retry |-> Null, outcome |-> IF pc = "done" THEN "not-authenticated" ELSE Null,
   logouts |-> 0, nav0 |-> navCount, held |-> <<Null, Null>>]

\* l. 110-118: the call up to its first await.  extensionApi is the
\* useExtensionApi of useAuth (l. 35), over the client useAuth was given.
refreshUserInfo_call ==
  /\ ready = <<>>
  /\ Len(uinfo) < MaxUserInfo
  /\ \E client \in {0, 1} :
       LET u == Len(uinfo) + 1 IN
       IF ~isAuthenticated
         THEN /\ uinfo' = Append(uinfo, newUserInfoCall(client, "done", 0))
              /\ UNCHANGED <<api, ready>>
         ELSE /\ uinfo' = Append(uinfo, newUserInfoCall(client, "userinfo", Len(api) + 1))
              /\ sendApiRequest_call(-u, "authApi", client, ready)
  /\ UNCHANGED <<storeVars, exchVars, refreshVars, pageVars, componentVars, auth,
                 extension, detects>>

\* l. 127: the server says logged out while a token is stored.
needsTokenRefresh(response, authenticated) ==
  response = "logged_out" /\ authenticated

\* l. 118-132 and l. 180-191: the first user-info request has settled.
refreshUserInfo_afterUserInfo(u) ==
  LET a == uinfo[u].a1 IN
  /\ IsNext("afterUserInfo", -u)
  /\ uinfo[u].pc = "userinfo"
  /\ \E response \in responsesOf(a) :
       IF response = "thrown"
         THEN /\ uinfo' = [uinfo EXCEPT ![u].pc = "done", ![u].outcome = "thrown"]
              /\ auth' = [state |-> [authState EXCEPT !.error = "error"],
                          seen |-> notified]
              /\ ready' = Tail(ready)
              /\ UNCHANGED <<refreshVars, tokenReqs>>
       ELSE IF needsTokenRefresh(response, isAuthenticated)
         THEN /\ uinfo' = [uinfo EXCEPT ![u].pc = "refreshing", ![u].first = response,
                                        ![u].r = Len(rcalls) + 1,
                                        ![u].held = <<store.access, store.refresh>>]
              /\ refreshAccessToken_callOn(-u, "authServer", Tail(ready))
              /\ auth' = auth
         ELSE /\ uinfo' = [uinfo EXCEPT ![u].pc = "done", ![u].first = response,
                                        ![u].outcome = "stored"]
              /\ auth' = [state |-> [authState EXCEPT !.userInfo = response,
                                                      !.error = Null],
                          seen |-> notified]
              /\ ready' = Tail(ready)
              /\ UNCHANGED <<refreshVars, tokenReqs>>
  /\ UNCHANGED <<storeVars, issued, exch, succeeded, api, pageVars, componentVars,
                 extension, detects>>

\* l. 134: `if (newToken)`.
retriesUserInfo(newToken) == newToken # Null

\* l. 132-138 and l. 183-187: refreshAccessToken has returned.  Without a
\* new token control leaves the inner try and the first response is stored.
refreshUserInfo_afterRefresh(u) ==
  LET newToken == rcalls[uinfo[u].r].result IN
  /\ IsNext("afterRefresh", -u)
  /\ uinfo[u].pc = "refreshing"
  /\ IF retriesUserInfo(newToken)
       THEN /\ uinfo' = [uinfo EXCEPT ![u].pc = "retry", ![u].a2 = Len(api) + 1]
            /\ sendApiRequest_call(-u, "authApi", uinfo[u].client, Tail(ready))
            /\ auth' = auth
       ELSE /\ uinfo' = [uinfo EXCEPT ![u].pc = "done", ![u].outcome = "stored"]
            /\ auth' = [state |-> [authState EXCEPT !.userInfo = uinfo[u].first,
                                                    !.error = Null],
                        seen |-> notified]
            /\ ready' = Tail(ready)
            /\ api' = api
  /\ UNCHANGED <<storeVars, exchVars, refreshVars, pageVars, componentVars, extension,
                 detects>>

\* Mutant: only a retry that throws ends in the logout.
logsOutAfterRetry_onThrowOnly(response) == response = "thrown"

\* l. 144 and l. 169: the retry says logged out still, or it threw and
\* control went to catch (refreshError).
logsOutAfterRetry(response) == response \in {"logged_out", "thrown"}

\* l. 138-166 and l. 169-180: the retried user-info request has settled.
refreshUserInfo_afterRetry(u) ==
  LET a == uinfo[u].a2 IN
  /\ IsNext("afterUserInfo", -u)
  /\ uinfo[u].pc = "retry"
  /\ \E response \in responsesOf(a) :
       IF logsOutAfterRetry(response)
         THEN /\ uinfo' = [uinfo EXCEPT ![u].pc = "done", ![u].retry = response,
                                        ![u].outcome = "logout", ![u].logouts = @ + 1]
              /\ clearTokensAndRedirect
              /\ auth' = [state |-> checkAuthStatus(loggedOutState(authState), FALSE),
                          seen |-> notified + 1]
         ELSE /\ uinfo' = [uinfo EXCEPT ![u].pc = "done", ![u].retry = response,
                                        ![u].outcome = "stored"]
              /\ auth' = [state |-> [authState EXCEPT !.userInfo = response,
                                                      !.error = Null],
                          seen |-> notified]
              /\ UNCHANGED <<store, pageVars>>
  /\ ready' = Tail(ready)
  /\ UNCHANGED <<nonce, logins, exchVars, refreshVars, api, componentVars, extension,
                 detects>>

UserInfoDirect == refreshUserInfo_call

UserInfoResumes ==
  \E u \in 1 .. Len(uinfo) :
    \/ refreshUserInfo_afterUserInfo(u)
    \/ refreshUserInfo_afterRefresh(u)
    \/ refreshUserInfo_afterRetry(u)

(***************************************************************************)
(* useExtension (useAuthServer.ts l. 258-363) over loadExtensionClient     *)
(* (libbodhiext.ts l. 150-196).  A client is named by the number of the    *)
(* detection that made it, 0 is null; serverState holds the name of the    *)
(* client that reported it.                                                *)
(***************************************************************************)
\* l. 259-265: the state useExtension starts with.
InitialExtension ==
  [status |-> "idle", client |-> 0, extensionId |-> 0, error |-> Null,
   serverState |-> 0]

\* libbodhiext.ts l. 150-196: loadExtensionClient resolves with a new
\* client, or throws ExtensionNotFoundError or ExtensionTimeoutError.
LoadOutcomes == {"client", "ExtensionNotFoundError", "ExtensionTimeoutError"}

\* l. 268-272: detect up to its await.
detecting(prev) == [prev EXCEPT !.status = "detecting", !.error = Null]

\* l. 281-287: loadExtensionClient has resolved.
detected(prev, c) ==
  [prev EXCEPT !.status = "ready", !.client = c, !.extensionId = c, !.error = Null]

\* Mutant: a failed detection leaves the client it found before.
detectFailed_keepsClient(prev, error) ==
  [prev EXCEPT !.status = IF error = "ExtensionNotFoundError" THEN "not-found"
                          ELSE "error",
               !.error = error]

\* l. 300-316: the catch of detect.
detectFailed(prev, error) ==
  [prev EXCEPT !.status = IF error = "ExtensionNotFoundError" THEN "not-found"
                          ELSE "error",
               !.client = 0, !.extensionId = 0, !.error = error, !.serverState = 0]

newDetect(kind, pc, c) == [kind |-> kind, pc |-> pc, client |-> c, result |-> Null]

\* l. 267-279: detect is called.
detect_call ==
  /\ ready = <<>>
  /\ Len(detects) < MaxDetects
  /\ extension' = detecting(extension)
  /\ detects' = Append(detects, newDetect("detect", "loading", 0))
  /\ UNCHANGED <<storeVars, exchVars, refreshVars, api, pageVars, ready, componentVars,
                 auth, uinfo>>

\* l. 344-347: the effect of the mount.
useExtension_mount == detects = <<>> /\ detect_call

\* l. 320-322: retry, which the page calls at any time after that.
useExtension_retry == detects # <<>> /\ detect_call

\* l. 274-299: loadExtensionClient settles.  The client's serverState() is
\* called in the same task when detection succeeded.
loadExtensionClient_settle ==
  /\ ready = <<>>
  /\ \E d \in 1 .. Len(detects), out \in LoadOutcomes :
       /\ detects[d].pc = "loading"
       /\ IF out = "client"
            THEN /\ extension' = detected(extension, d)
                 /\ detects' = [detects EXCEPT ![d].pc = "serverState", ![d].client = d,
                                               ![d].result = out]
            ELSE /\ extension' = detectFailed(extension, out)
                 /\ detects' = [detects EXCEPT ![d].pc = "done", ![d].result = out]
  /\ UNCHANGED <<storeVars, exchVars, refreshVars, api, pageVars, ready, componentVars,
                 auth, uinfo>>

\* l. 324-327: refreshServerState is called, over the client of the render.
refreshServerState_call ==
  /\ ready = <<>>
  /\ Len(detects) < MaxDetects
  /\ extension.client # 0
  /\ detects' = Append(detects, newDetect("refresh", "serverState", extension.client))
  /\ UNCHANGED <<storeVars, exchVars, refreshVars, api, pageVars, ready, componentVars,
                 auth, uinfo, extension>>

\* l. 290-298 and l. 329-341: client.serverState() settles.  detect only
\* warns when it failed; refreshServerState stores the error and rethrows.
serverState_settle ==
  /\ ready = <<>>
  /\ \E d \in 1 .. Len(detects), ok \in BOOLEAN :
       /\ detects[d].pc = "serverState"
       /\ detects' = [detects EXCEPT ![d].pc = "done",
                        ![d].result = IF ok THEN "serverState" ELSE "serverState failed"]
       /\ extension' =
            IF ok THEN [extension EXCEPT !.serverState = detects[d].client]
            ELSE IF detects[d].kind = "refresh"
              THEN [extension EXCEPT !.error = "serverState failed"]
              ELSE extension
  /\ UNCHANGED <<storeVars, exchVars, refreshVars, api, pageVars, ready, componentVars,
                 auth, uinfo>>

(***************************************************************************)
(* Specifications.                                                         *)
(***************************************************************************)
InitController ==
  /\ extClient = 0
  /\ runs = <<>>
  /\ processingRef = FALSE
  /\ processedRef = FALSE
  /\ view = [status |-> "loading", message |-> Null]
  /\ alive = TRUE
  /\ auth = [state |-> checkAuthStatus(InitialAuthState, isAuthenticated), seen |-> 0]
  /\ uinfo = <<>>
  /\ extension = InitialExtension
  /\ detects = <<>>

\* A page without a callback controller.
NoController ==
  /\ controller = "none"
  /\ url = NoParams
  /\ InitController

InitIdle ==
  /\ nonce = 0
  /\ logins = <<>>
  /\ tokenReqs = <<>>
  /\ issued = 0
  /\ exch = <<>>
  /\ succeeded = {}
  /\ refreshPromiseRef = [i \in Inst |-> 0]
  /\ flights = <<>>
  /\ rcalls = <<>>
  /\ api = <<>>
  /\ notified = 0
  /\ navCount = 0
  /\ ready = <<>>

\* The PKCE exchange: login starts and exchange calls over a persisted store.
InitExchange ==
  /\ store \in PersistedStores
  /\ InitIdle
  /\ NoController

NextExchange ==
  \/ buildAuthUrl_start
  \/ \E l \in 1 .. Len(logins) : buildAuthUrl_resume(l)
  \/ ExchangeDirect
  \/ ExchangeResponse

SpecExchange == InitExchange /\ [][NextExchange]_vars

\* The landing page: the user asks for access, starts a login, signs out.
InitLogin ==
  /\ store \in PersistedStores
  /\ InitIdle
  /\ NoController

NextLogin ==
  \/ AccessDirect
  \/ AccessSettles
  \/ buildAuthUrl_start
  \/ \E l \in 1 .. Len(logins) : buildAuthUrl_resume(l)
  \/ useAuth_logout

SpecLogin == InitLogin /\ [][NextLogin]_vars

\* An established session: API calls and refreshes over a persisted store.
SessionStores ==
  {st \in PersistedStores : st.verifier = 0 /\ st.state = 0 /\ st.scope = Null}

InitSession ==
  /\ store \in SessionStores
  /\ InitIdle
  /\ NoController

NextSession ==
  \/ ApiDirect
  \/ SendSettles
  \/ ApiAfterRefresh
  \/ StreamDirect
  \/ StreamSettles
  \/ StreamAfterRefresh
  \/ RefreshDirect
  \/ performTokenRefresh_settle
  \/ refreshAccessToken_resume

SpecSession == InitSession /\ [][NextSession]_vars

\* API calls alone, under the hypothesis that what they wait for settles:
\* the extension answers every send, the token endpoint every request, and
\* the event loop runs every continuation that is due.
NextApi ==
  \/ ApiDirect
  \/ SendSettles
  \/ ApiAfterRefresh
  \/ performTokenRefresh_settle
  \/ refreshAccessToken_resume

FairApi ==
  /\ InitSession
  /\ [][NextApi]_vars
  /\ WF_vars(SendSettles)
  /\ WF_vars(performTokenRefresh_settle)
  /\ WF_vars(ApiAfterRefresh)
  /\ WF_vars(refreshAccessToken_resume)

\* API calls that carry headers of the caller.
NextHeaders ==
  \/ ApiWithHeaders
  \/ SendSettles
  \/ ApiAfterRefresh
  \/ performTokenRefresh_settle
  \/ refreshAccessToken_resume

SpecHeaders == InitSession /\ [][NextHeaders]_vars

\* The page load of an OAuth callback under either controller.
\* App renders OAuthCallbackProcessor when the URL has a code or an error
\* (App.tsx l. 198-205), CallbackHandler also when it has neither, on the
\* path /callback (l. 274-277).
rendered(c, u) ==
  c = "OAuthCallbackProcessor" => (u.code # Null \/ u.error # Null)

InitCallback ==
  /\ store \in CallbackStores
  /\ InitIdle
  /\ controller \in Controllers
  /\ url \in CallbackUrls
  /\ rendered(controller, url)
  /\ InitController

NextCallback ==
  \/ Mount
  \/ detect_settle
  \/ Unmount
  \/ controller_afterExchange
  \/ controller_afterUserInfo
  \/ redirectTimer
  \/ ExchangeResponse
  \/ SendSettles
  \/ ApiAfterRefresh
  \/ performTokenRefresh_settle
  \/ refreshAccessToken_resume

SpecCallback == InitCallback /\ [][NextCallback]_vars

\* The same page load under the hypothesis that the network calls settle:
\* React runs the effect of the mount, the token endpoint and the extension
\* answer, and the event loop runs the continuations that are due.  Nothing
\* makes the extension appear, the client change, or the timer outlive the
\* page.
FairCallback ==
  /\ SpecCallback
  /\ WF_vars(Mount)
  /\ WF_vars(ExchangeResponse)
  /\ WF_vars(SendSettles)
  /\ WF_vars(performTokenRefresh_settle)
  /\ WF_vars(refreshAccessToken_resume)
  /\ WF_vars(ApiAfterRefresh)
  /\ WF_vars(controller_afterExchange)
  /\ WF_vars(controller_afterUserInfo)

\* useAuth.refreshUserInfo over a signed-in session.
NextUserInfo ==
  \/ UserInfoDirect
  \/ UserInfoResumes
  \/ SendSettles
  \/ ApiAfterRefresh
  \/ performTokenRefresh_settle
  \/ refreshAccessToken_resume

SpecUserInfo == InitSession /\ [][NextUserInfo]_vars

\* useExtension: the mount, the retries of the page, the server state.
NextDetect ==
  \/ useExtension_mount
  \/ useExtension_retry
  \/ loadExtensionClient_settle
  \/ refreshServerState_call
  \/ serverState_settle

SpecDetect == InitSession /\ [][NextDetect]_vars

(***************************************************************************)
(* The claims about exchangeCodeForTokens.                                 *)
(***************************************************************************)
\* The call that a step starts, if it starts one.
NewExch == exch'[Len(exch')]
StartsExch == Len(exch') = Len(exch) + 1

\* C2: a call whose state differs from the stored state (or that finds no
\* stored state) fails with the state-mismatch error, sends nothing to the
\* token endpoint and leaves the Token Store as it was.
C2_StateMismatchBeforeNetwork ==
  [][(StartsExch /\ (store.state = 0 \/ NewExch.state # store.state))
       => /\ NewExch.pc = "done"
          /\ NewExch.result = "StateMismatch"
          /\ NewExch.req = 0
          /\ tokenReqs' = tokenReqs
          /\ store' = store]_vars

C2_Witness ==
  \E e \in 1 .. Len(exch) :
    exch[e].state # 0 /\ exch[e].result = "StateMismatch" /\ tokenReqs = <<>>

C4_VerifierNeverReused ==
  \A i, j \in 1 .. Len(tokenReqs) :
    (/\ i < j
     /\ tokenReqs[i].grant = "authorization_code"
     /\ tokenReqs[j].grant = "authorization_code")
      => tokenReqs[i].verifier # tokenReqs[j].verifier

\* C5: when the exchange of a login's code succeeds, isAuthenticated() is
\* true and the code-verifier, state and resource-scope keys are absent.
C5_AuthenticatedAndPkceDeleted ==
  [][\A e \in 1 .. Len(exch) :
       (exch[e].pc = "awaitFetch" /\ exch'[e].pc = "done" /\ exch'[e].result = "ok")
         => /\ isAuthenticated'
            /\ store'.verifier = 0
            /\ store'.state = 0
            /\ store'.scope = Null]_vars

\* Login start stored V1/S1, the callback carried S1, the exchange succeeded.
C5_Witness ==
  \E l \in 1 .. Len(logins), e \in 1 .. Len(exch) :
    /\ logins[l].pc = "done"
    /\ exch[e].state = logins[l].state
    /\ exch[e].result = "ok"
    /\ tokenReqs[exch[e].req].verifier = logins[l].verifier
    /\ isAuthenticated
    /\ store.verifier = 0 /\ store.state = 0 /\ store.scope = Null

\* C6: a call whose state equals the stored state while no code verifier is
\* stored fails with MissingVerifierError, sends nothing to the token
\* endpoint and leaves the Token Store as it was.
C6_MissingVerifierBeforeNetwork ==
  [][(StartsExch /\ store.state # 0 /\ NewExch.state = store.state
        /\ store.verifier = 0)
       => /\ NewExch.pc = "done"
          /\ NewExch.result = "MissingVerifier"
          /\ NewExch.req = 0
          /\ tokenReqs' = tokenReqs
          /\ store' = store]_vars

C6_Witness ==
  \E e \in 1 .. Len(exch) :
    exch[e].result = "MissingVerifier" /\ exch[e].state = store.state

(***************************************************************************)
(* The claims about refreshAccessToken and sendApiRequest, checked under   *)
(* SpecSession.                                                            *)
(***************************************************************************)
requestsOf(f) ==
  {i \in 1 .. Len(tokenReqs) : tokenReqs[i].flight = f}

Joined == {r \in 1 .. Len(rcalls) : rcalls[r].during # 0}

sameOutcome(r, q) ==
  /\ rcalls[r].flight = rcalls[q].flight
  /\ (rcalls[r].pc = "done" /\ rcalls[q].pc = "done")
       => rcalls[r].result = rcalls[q].result

\* C7, as the specification states it: a call of refreshAccessToken made
\* while the call that started a refresh is outstanding leads to exactly one
\* request to the token endpoint, and both calls get the same result.
C7_ExactlyOneRequest ==
  \A r \in Joined :
    /\ sameOutcome(r, rcalls[r].during)
    /\ Cardinality(requestsOf(rcalls[r].flight)) = 1

\* C7, as the code has it: the two calls share one refresh and get the same
\* result; the refresh sends one request when a refresh token was stored at
\* the first call, and none (both get null) when there was none.
C7_AtMostOneRequestSameResult ==
  \A r \in Joined :
    LET f == rcalls[r].flight IN
    /\ sameOutcome(r, rcalls[r].during)
    /\ Cardinality(requestsOf(f)) = (IF flights[f].rt = Null THEN 0 ELSE 1)
    /\ (flights[f].rt = Null /\ rcalls[r].pc = "done") => rcalls[r].result = Null

C7_Witness ==
  \E r \in Joined :
    /\ rcalls[r].pc = "done" /\ rcalls[rcalls[r].during].pc = "done"
    /\ rcalls[r].result # Null
    /\ rcalls[r].result = rcalls[rcalls[r].during].result
    /\ Cardinality(requestsOf(rcalls[r].flight)) = 1

\* C8: at most one refresh_token request to the token endpoint is
\* outstanding, whichever components started the refreshes.
C8_AtMostOneRefreshOutstanding ==
  Cardinality({f \in 1 .. Len(flights) : flights[f].pc = "fetching"}) <= 1

refreshOf(a) == CHOOSE r \in 1 .. Len(rcalls) : rcalls[r].caller = a

\* C9: a call whose first send signalled 401, whose refresh gave a new token
\* and whose retry succeeded has sent twice, refreshed once, never called
\* clearTokensAndRedirect, and returns the response of the retry.
C9_RefreshThenRetrySucceeds ==
  \A a \in 1 .. Len(api) :
    (api[a].pc = "done" /\ api[a].first = "error401" /\ api[a].retry = "response")
      => /\ api[a].sends = 2
         /\ api[a].refreshes = 1
         /\ Cardinality({r \in 1 .. Len(rcalls) : rcalls[r].caller = a}) = 1
         /\ rcalls[refreshOf(a)].result # Null
         /\ api[a].logouts = 0
         /\ api[a].how = "returned"
         /\ api[a].attempt = 2

C9_Witness ==
  \E a \in 1 .. Len(api) :
    /\ api[a].pc = "done" /\ api[a].first = "error401" /\ api[a].retry = "response"
    /\ api[a].hdr2 = rcalls[refreshOf(a)].result
    /\ api[a].how = "returned" /\ api[a].attempt = 2

controllerExchanges == {e \in 1 .. Len(exch) : exch[e].caller # 0}
controllerUserInfos == {a \in 1 .. Len(api) : api[a].caller # 0}

\* C1: within one page load, however often the effect fires and whatever
\* dependency changes identity, the callback controller invokes
\* exchangeCodeForTokens at most once and sends the user-info request at most
\* once.
C1_SequenceAtMostOnce ==
  /\ Cardinality(controllerExchanges) <= 1
  /\ Cardinality(controllerUserInfos) <= 1

\* The part of C1 about the user-info request alone.
UserInfoAtMostOnce == Cardinality(controllerUserInfos) <= 1

\* C1 for OAuthCallbackProcessor alone.
OAuthCallbackProcessorAtMostOnce ==
  controller = "OAuthCallbackProcessor" => C1_SequenceAtMostOnce

(***************************************************************************)
(* The claims about the retry policy of sendApiRequest and                 *)
(* sendStreamRequest, checked under SpecSession.                           *)
(***************************************************************************)
ApiCalls == {a \in 1 .. Len(api) : api[a].kind = "api"}
StreamCalls == {a \in 1 .. Len(api) : api[a].kind = "stream"}
refreshesOf(a) == {r \in 1 .. Len(rcalls) : rcalls[r].caller = a}

\* C11: a sendApiRequest call whose first send signalled 401 and whose
\* refresh gave null has called clearTokensAndRedirect exactly once, has made
\* no retry, and fails with the error of the first send.
C11_RefreshNullForcesLogout ==
  \A a \in ApiCalls :
    (/\ api[a].pc = "done" /\ api[a].first = "error401"
     /\ \E r \in refreshesOf(a) : rcalls[r].pc = "done" /\ rcalls[r].result = Null)
      => /\ api[a].logouts = 1
         /\ api[a].sends = 1
         /\ api[a].retry = "none"
         /\ api[a].how = "thrown"
         /\ api[a].attempt = 1

C11_Witness ==
  \E a \in ApiCalls :
    /\ api[a].pc = "done" /\ api[a].first = "error401"
    /\ rcalls[refreshOf(a)].pc = "done" /\ rcalls[refreshOf(a)].result = Null
    /\ api[a].logouts = 1 /\ api[a].sends = 1 /\ api[a].how = "thrown"
    /\ navCount >= 1 /\ ~isAuthenticated

\* C12: whatever the sends and the refresh do, one sendApiRequest or
\* sendStreamRequest call sends at most twice, calls refreshAccessToken at
\* most once and calls clearTokensAndRedirect at most once.
C12_RetryPolicyBounds ==
  \A a \in 1 .. Len(api) :
    /\ api[a].sends <= 2
    /\ api[a].refreshes <= 1
    /\ Cardinality(refreshesOf(a)) = api[a].refreshes
    /\ api[a].logouts <= 1

C12_Witness ==
  \E a \in ApiCalls, b \in StreamCalls :
    /\ api[a].pc = "done" /\ api[b].pc = "done"
    /\ api[a].sends = 2 /\ api[a].refreshes = 1 /\ api[a].logouts = 1
    /\ api[b].sends = 2 /\ api[b].refreshes = 1 /\ api[b].logouts = 1

\* C13: sendApiRequest calls refreshAccessToken whenever the first send
\* signals 401, be it in the result that the send returned or in the error
\* that it threw.
C13_Every401Refreshes ==
  \A a \in ApiCalls :
    api[a].first \in {"error401", "response401"} => api[a].refreshes = 1

\* C14: when the first send of sendApiRequest fails with an error that does
\* not signal 401, the call ends there and throws that error: one send, no
\* refresh, no retry, no clearTokensAndRedirect, the Token Store unchanged.
C14_OtherErrorPropagates ==
  [][\A a \in ApiCalls :
       (api[a].pc = "send1" /\ api'[a].pc # "send1" /\ api'[a].first = "error")
         => /\ api'[a].pc = "done"
            /\ api'[a].how = "thrown" /\ api'[a].attempt = 1
            /\ api'[a].sends = 1 /\ api'[a].retry = "none"
            /\ api'[a].refreshes = 0 /\ rcalls' = rcalls /\ tokenReqs' = tokenReqs
            /\ api'[a].logouts = 0 /\ navCount' = navCount /\ notified' = notified
            /\ store' = store]_vars

C14_Witness ==
  \E a \in ApiCalls :
    /\ api[a].pc = "done" /\ api[a].first = "error"
    /\ api[a].how = "thrown" /\ api[a].attempt = 1 /\ api[a].sends = 1
    /\ refreshesOf(a) = {}
    /\ isAuthenticated /\ navCount = 0

(***************************************************************************)
(* The claims about performTokenRefresh, checked under SpecSession.        *)
(***************************************************************************)
\* The token endpoint answers the request of refresh f in this step.
Answered(f) == flights[f].pc = "fetching" /\ flights'[f].pc = "settled"

\* The call r of refreshAccessToken returns in this step.
Returns(r) == rcalls[r].pc = "awaiting" /\ rcalls'[r].pc = "done"

keysOtherThanTokensKept ==
  /\ store'.verifier = store.verifier
  /\ store'.state = store.state
  /\ store'.scope = store.scope

transientFailure(resp) ==
  \/ resp.kind = "neterr"
  \/ resp.kind = "http" /\ resp.status \notin {400, 401}
  \/ resp.kind = "json" /\ resp.access = Null

\* C16: on a failure of the token endpoint other than HTTP 400 and 401
\* (another status, a network error, a response without access_token) the
\* store is left as it is, no notification is dispatched, and every call of
\* that refresh returns null.
C16_TransientFailureKeepsTokens ==
  [][/\ \A f \in 1 .. Len(flights) :
          (Answered(f) /\ transientFailure(flights'[f].resp))
            => /\ store' = store
               /\ notified' = notified
               /\ flights'[f].result = Null
     /\ \A r \in 1 .. Len(rcalls) :
          (Returns(r) /\ transientFailure(flights[rcalls[r].flight].resp))
            => rcalls'[r].result = Null]_vars

C16_Witness ==
  \E r \in 1 .. Len(rcalls) :
    /\ rcalls[r].pc = "done" /\ rcalls[r].result = Null
    /\ flights[rcalls[r].flight].resp.kind = "http"
    /\ flights[rcalls[r].flight].resp.status = 500
    /\ store.refresh = flights[rcalls[r].flight].rt
    /\ store.access # Null /\ notified = 0

\* A call of refreshAccessToken is made in this step.
StartsRefresh == Len(rcalls') = Len(rcalls) + 1
NewRefresh == rcalls'[Len(rcalls')]

\* C17: a call of refreshAccessToken that finds no refresh token stored (and
\* no refresh of its instance in flight to wait for) sends no request, changes
\* nothing in the store, and returns null.
C17_NoRefreshTokenReturnsNull ==
  [][/\ (StartsRefresh /\ store.refresh = Null /\ NewRefresh.owner)
          => /\ tokenReqs' = tokenReqs
             /\ store' = store
             /\ notified' = notified
             /\ flights'[NewRefresh.flight].pc = "settled"
             /\ flights'[NewRefresh.flight].rt = Null
             /\ flights'[NewRefresh.flight].result = Null
     /\ \A r \in 1 .. Len(rcalls) :
          (Returns(r) /\ flights[rcalls[r].flight].rt = Null)
            => /\ rcalls'[r].result = Null
               /\ store' = store
               /\ tokenReqs' = tokenReqs]_vars

C17_Witness ==
  \E r \in 1 .. Len(rcalls) :
    /\ rcalls[r].pc = "done" /\ rcalls[r].owner
    /\ flights[rcalls[r].flight].rt = Null
    /\ rcalls[r].result = Null
    /\ requestsOf(rcalls[r].flight) = {}

\* C18: on a successful answer the new access token is stored, the new
\* refresh token is stored if the answer has one and the stored one is kept
\* if it has none, and every call of that refresh returns the new access
\* token.
C18_SuccessfulRefreshStoresTokens ==
  [][/\ \A f \in 1 .. Len(flights) :
          (Answered(f) /\ flights'[f].resp.kind = "json"
                       /\ flights'[f].resp.access # Null)
            => /\ store'.access = flights'[f].resp.access
               /\ store'.refresh = IF flights'[f].resp.refresh # Null
                                     THEN flights'[f].resp.refresh
                                     ELSE store.refresh
               /\ keysOtherThanTokensKept
               /\ flights'[f].result = flights'[f].resp.access
     /\ \A r \in 1 .. Len(rcalls) :
          (Returns(r) /\ flights[rcalls[r].flight].resp.kind = "json"
                      /\ flights[rcalls[r].flight].resp.access # Null)
            => rcalls'[r].result = flights[rcalls[r].flight].resp.access]_vars

C18_Witness ==
  \E r, q \in 1 .. Len(rcalls) :
    /\ rcalls[r].pc = "done" /\ rcalls[q].pc = "done"
    /\ flights[rcalls[r].flight].resp.kind = "json"
    /\ flights[rcalls[r].flight].resp.refresh = Null
    /\ rcalls[r].result = flights[rcalls[r].flight].resp.access
    /\ rcalls[r].result # Null
    /\ flights[rcalls[q].flight].resp.refresh # Null
    /\ rcalls[q].result # Null
    /\ store.refresh = flights[rcalls[q].flight].resp.refresh
    /\ store.access = rcalls[r].result

\* What refreshAccessToken gave the call a: nothing asked, null, or a token.
yielded(a) ==
  IF refreshesOf(a) = {} THEN "not called"
  ELSE IF rcalls[refreshOf(a)].result = Null THEN "null" ELSE "token"

sameInputs(a, b) ==
  /\ api[a].pc = "done" /\ api[b].pc = "done"
  /\ (api[a].sends = 0) = (api[b].sends = 0)
  /\ api[a].first = api[b].first
  /\ yielded(a) = yielded(b)
  /\ api[a].retry = api[b].retry

\* C19: a sendApiRequest call and a sendStreamRequest call whose sends and
\* whose refresh had the same outcomes have made the same number of sends,
\* refreshAccessToken calls and clearTokensAndRedirect calls, and ended the
\* same way (returned or thrown, on the same attempt).
C19_SameRetryPolicy ==
  \A a \in ApiCalls, b \in StreamCalls :
    sameInputs(a, b)
      => /\ api[a].sends = api[b].sends
         /\ api[a].refreshes = api[b].refreshes
         /\ api[a].logouts = api[b].logouts
         /\ api[a].how = api[b].how
         /\ api[a].attempt = api[b].attempt

C19_Witness ==
  \E a \in ApiCalls, b \in StreamCalls :
    /\ sameInputs(a, b)
    /\ api[a].first = "error401" /\ yielded(a) = "token" /\ api[a].retry = "error401"
    /\ api[b].sends = 2 /\ api[b].logouts = 1 /\ api[b].how = "thrown"
    /\ api[b].attempt = 2

(***************************************************************************)
(* The claims about the validation of the callback URL, checked under      *)
(* SpecCallback.                                                           *)
(***************************************************************************)
\* A firing of the effect starts the processing of the callback in this step.
StartsProcessing ==
  /\ Len(runs') = Len(runs) + 1
  /\ runs'[Len(runs')].pc # "idle"

Failed(v) == v.status \in {"error", "reloaded"}

deniedOutcome ==
  /\ runs'[Len(runs')].pc = "failed"
  /\ Failed(view')
  /\ view'.message = "User denied access to the application"
  /\ exch' = exch /\ api' = api /\ tokenReqs' = tokenReqs

\* C20: whenever the callback URL has error=access_denied, with or without
\* an error_description, the controller fails with the message "User denied
\* access to the application" and makes no network call.
C20_AccessDeniedMessage ==
  [][(StartsProcessing /\ url.error = "access_denied") => deniedOutcome]_vars

\* The part of C20 for a URL without error_description.
AccessDeniedWithoutDescription ==
  [][(StartsProcessing /\ url.error = "access_denied" /\ url.description = Null)
       => deniedOutcome]_vars

\* A callback URL with an error never leads to a network call.
ErrorUrlNoNetworkCall ==
  [][(StartsProcessing /\ url.error # Null)
       => exch' = exch /\ api' = api /\ tokenReqs' = tokenReqs]_vars

\* The effect of the controller fires in this step.
Fires == Len(runs') = Len(runs) + 1

noCallNoWrite ==
  /\ exch' = exch /\ api' = api /\ tokenReqs' = tokenReqs
  /\ store' = store

lacksCodeOrState(u) ==
  u.error = Null /\ (u.code \in {Null, ""} \/ u.state = 0)

\* C21: with a callback URL that has no error and lacks the code or the
\* state, the controller, once it can process (the bridge is ready), goes to
\* failed, without a call of exchangeCodeForTokens, without the user-info
\* request and without a change of the Token Store.
C21_MissingParamsFail ==
  [][(Fires /\ extClient' # 0 /\ lacksCodeOrState(url))
       => Failed(view') /\ noCallNoWrite]_vars

\* The part of C21 that does not depend on reaching failed.
MissingParamsNoCall ==
  [][(Fires /\ lacksCodeOrState(url)) => noCallNoWrite]_vars

\* C21 for the firings that do process the callback.
MissingParamsFailWhenProcessed ==
  [][(StartsProcessing /\ lacksCodeOrState(url))
       => Failed(view') /\ noCallNoWrite]_vars


\* No render of this page load has had an extension client yet.
bridgeNeverReady == \A i \in 1 .. Len(runs) : runs[i].client = 0

notStarted ==
  /\ controllerExchanges = {}
  /\ controllerUserInfos = {}
  /\ ~Failed(view)

\* C22: while the extension client is null the callback controller stays at
\* not-started: it has not invoked exchangeCodeForTokens, has sent no
\* user-info request, and has not entered failed.
C22_WaitsForBridge == bridgeNeverReady => notStarted

\* C22 for CallbackHandler alone, whose effect tests extension.client
\* (AuthCard.tsx l. 301).
CallbackHandlerWaitsForBridge ==
  (controller = "CallbackHandler" /\ bridgeNeverReady)
    => (notStarted /\ view.status = "loading")


(***************************************************************************)
(* The order of the steps of the callback controller, checked under        *)
(* SpecCallback.                                                           *)
(***************************************************************************)
\* The exchange of firing run has returned "ok".
exchangedOk(run) ==
  \E e \in controllerExchanges :
    exch[e].caller = run /\ exch[e].pc = "done" /\ exch[e].result = "ok"

\* Firing run leaves its await of exchangeCodeForTokens in this step.
LeavesExchange(run) == runs[run].pc = "exchange" /\ runs'[run].pc # "exchange"

\* C23: the steps of one processing are strictly sequential.  The controller
\* invokes exchangeCodeForTokens only in a firing whose validation passed; it
\* sends the user-info request only after the exchange of the same firing
\* has completed successfully; when the exchange fails, no user-info request
\* is sent and the firing, unless it has been cleaned up, goes to failed.
C23_StrictlySequential ==
  [][/\ \A e \in controllerExchanges' \ controllerExchanges :
          /\ validateCallback(url) = "ok"
          /\ runs'[exch'[e].caller].pc = "exchange"
     /\ \A a \in controllerUserInfos' \ controllerUserInfos :
          /\ exchangedOk(api'[a].caller)
          /\ LeavesExchange(api'[a].caller)
     /\ \A run \in 1 .. Len(runs) :
          (LeavesExchange(run) /\ ~exchangedOk(run))
            => /\ api' = api
               /\ runs[run].mounted
                    => (runs'[run].pc = "failed" /\ Failed(view'))]_vars

\* The exchange of one firing failed and the firing went to failed without a
\* user-info request; the exchange of a later firing succeeded and its
\* user-info request followed.
C23_Witness ==
  \E r1, r2 \in 1 .. Len(runs) :
    /\ runs[r1].pc = "failed"
    /\ \E e \in controllerExchanges :
         exch[e].caller = r1 /\ exch[e].result = "TokenExchange"
    /\ \A a \in controllerUserInfos : api[a].caller # r1
    /\ runs[r2].pc = "done"
    /\ exchangedOk(r2)
    /\ \E a \in controllerUserInfos : api[a].caller = r2 /\ api[a].how = "returned"


(***************************************************************************)
(* Teardown of the callback controller, checked under SpecCallback.        *)
(***************************************************************************)
\* What a step of the controller may change: its state, the URL, a request
\* of its own, a navigation to the root.
controllerUntouched ==
  /\ view' = view
  /\ url' = url
  /\ processedRef' = processedRef
  /\ runs' # runs => (api' = api /\ navCount' = navCount)

\* C24: once the controller's view has been torn down, the result of an
\* exchange or of a user-info request that was in flight is ignored: the
\* controller makes no state transition, sends nothing more and does not
\* navigate to the root.
C24_TornDownIgnoresResults == [][~alive => controllerUntouched]_vars

\* C24 for the firings whose liveness flag is false: the continuation of a
\* firing that has been cleaned up changes nothing but its own position.
CleanedUpFiringIgnoresResults ==
  [][\A run \in 1 .. Len(runs) :
       (~runs[run].mounted /\ runs'[run] # runs[run])
         => /\ view' = view /\ url' = url /\ processedRef' = processedRef
            /\ api' = api /\ navCount' = navCount
            /\ runs'[run].pc \in {"dropped", "redirected"}]_vars

\* C24 for CallbackHandler alone.
CallbackHandlerTornDownIgnoresResults ==
  [][(controller = "CallbackHandler" /\ ~alive) => controllerUntouched]_vars


\* After a failure: the query parameters are gone and no exchange starts.
failedStaysFailed ==
  /\ Failed(view') => url' = NoParams
  /\ Failed(view) => controllerExchanges' = controllerExchanges

\* C25: once the controller has failed, the query parameters of the URL are
\* stripped, and no later firing of the effect invokes exchangeCodeForTokens
\* again (the model has no manual retry).
C25_FailedStripsAndNeverReruns == [][failedStaysFailed]_vars

\* C25 for OAuthCallbackProcessor alone (App.tsx l. 86-103).
OAuthCallbackProcessorFailedStaysFailed ==
  [][controller = "OAuthCallbackProcessor" => failedStaysFailed]_vars

\* The second half of C25 alone.
FailedNeverReruns ==
  [][Failed(view) => controllerExchanges' = controllerExchanges]_vars


(***************************************************************************)
(* The claims about the landing page, checked under SpecLogin.             *)
(***************************************************************************)
\* This step runs clearTokensAndRedirect.
LogsOut == navCount' = navCount + 1

\* C26: clearTokensAndRedirect removes all five keys of the Token Store,
\* dispatches one authStateChanged and navigates to the root once;
\* isAuthenticated() is false afterwards.
C26_LogoutClearsAllKeys ==
  [][LogsOut
       => /\ store'.access = Null /\ store'.refresh = Null
          /\ store'.scope = Null /\ store'.verifier = 0 /\ store'.state = 0
          /\ notified' = notified + 1
          /\ ~isAuthenticated']_vars

\* A logout from a store that held a token, a scope and PKCE values.
C26_Witness ==
  /\ navCount = 1 /\ notified = 1
  /\ ~isAuthenticated
  /\ store = clearedStore(store)
  /\ \E l \in 1 .. Len(logins) : logins[l].pc = "done"
  /\ \E a \in 1 .. Len(api) : api[a].how = "returned"


\* The call of buildAuthUrl that a step starts, if it starts one.
StartsLogin == Len(logins') = Len(logins) + 1
NewLogin == logins'[Len(logins')]

\* The call l of buildAuthUrl returns its URL in this step.
ReturnsUrl(l) == logins[l].pc = "hashing" /\ logins'[l].pc = "done"

\* C27: buildAuthUrl fails when no resource scope is stored, and then writes
\* neither verifier nor state; when it succeeds, the verifier and the state
\* that it drew are in the Token Store and the state parameter of the URL
\* that it returns is the stored state; it never navigates.
C27_BuildAuthUrl ==
  [][/\ (StartsLogin /\ store.scope = Null)
          => (NewLogin.pc = "failed" /\ store' = store /\ nonce' = nonce)
     /\ \A l \in 1 .. Len(logins) :
          /\ logins[l].pc = "failed" => logins'[l] = logins[l]
          /\ ReturnsUrl(l)
               => /\ store'.verifier = logins'[l].verifier
                  /\ store'.verifier # 0
                  /\ store'.state = logins'[l].state
                  /\ store'.state # 0
     /\ logins' # logins => (navCount' = navCount /\ notified' = notified)]_vars

\* A login over a store that held the PKCE values of an earlier one.
C27_Witness ==
  \E l \in 1 .. Len(logins) :
    /\ logins[l].pc = "done"
    /\ store.scope # Null
    /\ store.verifier = logins[l].verifier /\ store.verifier \notin {0, StaleNonce}
    /\ store.state = logins[l].state /\ store.state \notin {0, StaleNonce}
    /\ navCount = 0


AccessCalls == {a \in 1 .. Len(api) : api[a].kind = "access"}

\* The send of the call a of requestResourceAccess settles in this step.
AccessSettled(a) == api[a].pc = "send1" /\ api'[a].pc = "done"

\* C28: requestResourceAccess sends its request without a bearer header even
\* when an access token is stored; when the response has a scope, the scope
\* is stored and the call returns; when the response has none, or the send
\* fails, the call throws and the stored scope is as it was; the call never
\* refreshes, never retries and never logs out, whatever the status.
C28_RequestResourceAccess ==
  [][\A a \in 1 .. Len(api') :
       api'[a].kind = "access"
         => /\ api'[a].hdr1 = Null /\ api'[a].hdr2 = Null
            /\ api'[a].sends <= 1
            /\ api'[a].refreshes = 0 /\ api'[a].logouts = 0
            /\ (a \in 1 .. Len(api) /\ AccessSettled(a))
                 => /\ api'[a].first = "scope"
                         => (api'[a].how = "returned" /\ store'.scope = "scope_granted")
                    /\ api'[a].first # "scope"
                         => (api'[a].how = "thrown" /\ store'.scope = store.scope)
                    /\ store'.access = store.access /\ store'.refresh = store.refresh
                    /\ store'.verifier = store.verifier /\ store'.state = store.state
                    /\ rcalls' = rcalls /\ tokenReqs' = tokenReqs
                    /\ navCount' = navCount /\ notified' = notified]_vars

\* With an access token stored: one call stored the scope it was granted, a
\* later one got a response without a scope and threw.
C28_Witness ==
  \E a, b \in AccessCalls :
    /\ a < b
    /\ isAuthenticated
    /\ api[a].first = "scope" /\ api[a].how = "returned" /\ api[a].hdr1 = Null
    /\ api[b].first = "noscope" /\ api[b].how = "thrown"
    /\ store.scope = "scope_granted"
    /\ navCount = 0 /\ rcalls = <<>>


(***************************************************************************)
(* Termination of sendApiRequest, checked under FairApi.                   *)
(***************************************************************************)
\* The a-th call has been made / has returned or thrown.
Called(a) == Len(api) >= a
Settled(a) == Len(api) >= a /\ api[a].pc = "done"

\* The call threw the 401 of its retry.
threw401AfterRetry(a) ==
  /\ api[a].pc = "done"
  /\ api[a].first = "error401"
  /\ api[a].retry = "error401"
  /\ api[a].how = "thrown"

\* C29: when every send and every token request settles, every call of
\* sendApiRequest returns or throws; and a call that throws the 401 that its
\* one refresh-and-retry did not cure has called clearTokensAndRedirect.
C29_EveryCallSettles ==
  /\ \A a \in 1 .. MaxApi : Called(a) ~> Settled(a)
  /\ [](\A a \in ApiCalls :
          threw401AfterRetry(a)
            => (api[a].logouts = 1 /\ api[a].sends = 2 /\ navCount >= 1))

\* Every call made has settled, one of them by throwing the 401 of its retry
\* after a refresh that gave a token.
C29_Witness ==
  /\ Len(api) = MaxApi
  /\ \A a \in 1 .. Len(api) : api[a].pc = "done"
  /\ \E a \in ApiCalls :
       /\ threw401AfterRetry(a)
       /\ api[a].refreshes = 1
       /\ api[a].logouts = 1
       /\ ~isAuthenticated


(***************************************************************************)
(* The life of the callback controller, checked under FairCallback.        *)
(***************************************************************************)
\* A firing that has not been cleaned up is at pc.
liveAt(pc) == \E run \in 1 .. Len(runs) : runs[run].mounted /\ runs[run].pc = pc

\* The state of the controller.  Validation has no await in it: it begins
\* and ends within the step that starts the processing.
phase ==
  IF Failed(view) THEN "failed"
  ELSE IF view.status = "success" THEN "completed"
  ELSE IF liveAt("userinfo") THEN "fetching-user"
  ELSE IF liveAt("exchange") THEN "exchanging"
  ELSE "not-started"

ForwardMoves ==
  {<<"not-started", "exchanging">>, <<"exchanging", "fetching-user">>,
   <<"fetching-user", "completed">>,
   <<"not-started", "failed">>, <<"exchanging", "failed">>, <<"fetching-user", "failed">>}

\* A step of a view that is still there.
movesForward == (alive' /\ phase' # phase) => <<phase, phase'>> \in ForwardMoves

reachesTheEnd ==
  (extClient # 0 /\ hasCallbackParams /\ alive)
    ~> (phase \in {"completed", "failed"} \/ ~alive)

\* C30: once the bridge is ready on a page with callback parameters, and
\* while the view is not torn down, the controller reaches completed or
\* failed; it moves only forward, not-started to (validating to) exchanging
\* to fetching-user to completed, or from any of these into failed; failed
\* and completed are left by no step.
C30_ReachesTerminalInOrder == reachesTheEnd /\ [][movesForward]_vars

\* C30 for OAuthCallbackProcessor alone.
OAuthCallbackProcessorReachesTerminalInOrder ==
  /\ (controller = "OAuthCallbackProcessor" /\ runs # <<>> /\ alive)
       ~> (phase \in {"completed", "failed"} \/ ~alive)
  /\ [][controller = "OAuthCallbackProcessor" => movesForward]_vars

\* C30 for CallbackHandler as long as the effect fires once with a client.
firedOnceWithClient ==
  \A i, j \in 1 .. Len(runs') : (runs'[i].client # 0 /\ runs'[j].client # 0) => i = j

CallbackHandlerMovesForwardInOneFiring ==
  [][(controller = "CallbackHandler" /\ firedOnceWithClient /\ extClient' # 0)
       => movesForward]_vars


\* The first half of C30 as long as the client stays: the controller reaches
\* completed or failed unless the view is torn down or the client is lost.
ReachesTheEndWhileBridgeStays ==
  (extClient # 0 /\ hasCallbackParams /\ alive)
    ~> (phase \in {"completed", "failed"} \/ ~alive \/ extClient = 0)

\* The last part of C30 alone: failed and completed are left by no step.
TerminalStatesStay ==
  [][(alive' /\ phase \in {"completed", "failed"}) => phase' = phase]_vars


(***************************************************************************)
(* Writers of the Token Store against the logout, checked under            *)
(* SpecSession (where no exchange runs).                                   *)
(***************************************************************************)
\* C31: once clearTokensAndRedirect has run, the Token Store holds no access
\* token and no refresh token (until a later successful exchange, of which
\* this specification has none): the response of a refresh that arrives
\* after the logout writes no token back.
C31_NoTokensAfterLogout ==
  navCount >= 1 => (store.access = Null /\ store.refresh = Null)

\* After a logout, a token enters the store only with the answer of the
\* token endpoint to a refresh that was in flight.
TokensAfterLogoutComeFromRefresh ==
  [][(navCount >= 1 /\ (store'.access # store.access \/ store'.refresh # store.refresh))
       => \/ store'.access = Null /\ store'.refresh \in {Null, store.refresh}
          \/ \E f \in 1 .. Len(flights) :
               Answered(f) /\ flights'[f].resp.kind = "json"]_vars


\* The call a of sendApiRequest ends in this step.
Ends(a) == api[a].pc # "done" /\ api'[a].pc = "done"

\* The refresh that the call a awaited failed transiently.
refreshFailedTransiently(a) ==
  /\ api[a].pc = "refreshing"
  /\ \E r \in refreshesOf(a) :
       /\ rcalls[r].pc = "done"
       /\ flights[rcalls[r].flight].rt # Null
       /\ transientFailure(flights[rcalls[r].flight].resp)

\* C32: a transient failure of the refresh that sendApiRequest makes on a
\* 401 does not destroy the refresh token: when the call ends, the refresh
\* token that the store held is still there.
C32_TransientFailureKeepsRefreshToken ==
  [][\A a \in ApiCalls :
       (Ends(a) /\ refreshFailedTransiently(a) /\ store.refresh # Null)
         => store'.refresh = store.refresh]_vars

\* What holds: up to the moment the call resumes, the transient failure has
\* left the refresh token that was sent in the store, unless something else
\* has changed it.
TransientFailureItselfKeepsRefreshToken ==
  [][\A f \in 1 .. Len(flights) :
       (Answered(f) /\ transientFailure(flights'[f].resp))
         => store'.refresh = store.refresh]_vars


(***************************************************************************)
(* Overlapping logins, checked under SpecExchange.  The first login is     *)
(* the one whose verifier and state the page load finds in the store       *)
(* (StaleNonce); the second is the buildAuthUrl of the behaviour.          *)
(***************************************************************************)
DoneLogins == {l \in 1 .. Len(logins) : logins[l].pc = "done"}

\* C33: a login start that runs before the callback of an earlier login is
\* processed overwrites the stored verifier and state.  From then on a
\* callback that carries the state of the earlier login (or any state that
\* this login did not draw) fails the state check, with no request and no
\* write; an exchange that is sent carries the state and the verifier of the
\* later login.
C33_LastLoginWins ==
  [][/\ \A l \in 1 .. Len(logins) :
          ReturnsUrl(l)
            => (store'.verifier = logins'[l].verifier /\ store'.state = logins'[l].state)
     /\ (StartsExch /\ DoneLogins # {})
          => /\ (\A l \in DoneLogins : NewExch.state # logins[l].state)
                  => /\ NewExch.result = "StateMismatch"
                     /\ NewExch.req = 0
                     /\ tokenReqs' = tokenReqs
                     /\ store' = store
             /\ NewExch.req # 0
                  => \E l \in DoneLogins :
                       /\ NewExch.state = logins[l].state
                       /\ tokenReqs'[NewExch.req].verifier = logins[l].verifier]_vars

\* The callback of the earlier login has failed the state check, the one of
\* the later login has been exchanged with the later verifier.
C33_Witness ==
  \E l \in DoneLogins, e1, e2 \in 1 .. Len(exch) :
    /\ e1 < e2
    /\ exch[e1].state = StaleNonce
    /\ exch[e1].result = "StateMismatch" /\ exch[e1].req = 0
    /\ exch[e2].state = logins[l].state
    /\ exch[e2].result = "ok"
    /\ Len(tokenReqs) = 1
    /\ tokenReqs[1].verifier = logins[l].verifier
    /\ logins[l].verifier # StaleNonce


(***************************************************************************)
(* The headers of the two sends, checked under SpecHeaders.                *)
(***************************************************************************)
\* The call a of sendApiRequest sends its retry in this step.
Retries(a) == api[a].pc = "refreshing" /\ api'[a].pc = "send2"

\* C34: the retry that sendApiRequest sends after a successful refresh
\* carries the bearer of the access token that the store holds after the
\* refresh, which is the token the refresh returned and never the one of the
\* first send, together with the caller's other headers; buildAuthHeaders
\* sets Authorization to the bearer iff an access token is stored, passes
\* the caller's headers on otherwise, and writes nothing to the store.
C34_RetryCarriesNewBearer ==
  [][\A a \in 1 .. Len(api') :
       api'[a].kind = "api"
         => /\ a > Len(api)
                 => /\ store.access # Null => api'[a].hdr1 = store.access
                    /\ store.access = Null => api'[a].hdr1 = api'[a].add.Authorization
                    /\ api'[a].hx1 = api'[a].add.X
                    /\ store' = store
            /\ (a <= Len(api) /\ Retries(a))
                 => /\ api'[a].hdr2 = store.access
                    /\ api'[a].hdr2 = rcalls[refreshOf(a)].result
                    /\ api'[a].hdr2 # Null
                    /\ api'[a].hdr2 # api[a].hdr1
                    /\ api'[a].hx2 = api[a].add.X
                    /\ store' = store]_vars

\* A call with headers of its own whose first send carried the stored token
\* and whose retry carried the refreshed one, and a call made without a
\* token, whose first send carried the caller's Authorization.
C34_Witness ==
  \E a, b \in ApiCalls :
    /\ api[a].add = [Authorization |-> "caller", X |-> "x"]
    /\ api[a].hdr1 = AccessToken(0) /\ api[a].hx1 = "x"
    /\ api[a].sends = 2
    /\ api[a].hdr2 = AccessToken(1) /\ api[a].hx2 = "x"
    /\ api[b].add.Authorization = "caller"
    /\ api[b].hdr1 = "caller"


(***************************************************************************)
(* The in-flight handle of refreshAccessToken, checked under SpecSession.  *)
(***************************************************************************)
\* The calls of an instance that started a refresh and have not returned.
outstandingOwners(inst) ==
  {r \in 1 .. Len(rcalls) :
     rcalls[r].inst = inst /\ rcalls[r].owner /\ rcalls[r].pc = "awaiting"}

\* C35: when a call of refreshAccessToken returns, refreshPromiseRef no
\* longer holds its refresh; the ref is set only while the call that set it
\* is outstanding; and a call made when no refresh of its instance is
\* outstanding starts a refresh of its own, with a request of its own when a
\* refresh token is stored, instead of returning an earlier outcome.
C35_HandleClearedAfterSettle ==
  [][/\ \A r \in 1 .. Len(rcalls) :
          Returns(r) => refreshPromiseRef'[rcalls[r].inst] # rcalls[r].flight
     /\ \A inst \in Inst :
          refreshPromiseRef'[inst] # 0
            => \E r \in 1 .. Len(rcalls') :
                 /\ rcalls'[r].inst = inst /\ rcalls'[r].owner
                 /\ rcalls'[r].pc = "awaiting"
                 /\ rcalls'[r].flight = refreshPromiseRef'[inst]
     /\ (StartsRefresh /\ outstandingOwners(NewRefresh.inst) = {})
          => /\ NewRefresh.owner
             /\ NewRefresh.flight = Len(flights) + 1
             /\ Len(flights') = Len(flights) + 1
             /\ store.refresh # Null
                  => /\ Len(tokenReqs') = Len(tokenReqs) + 1
                     /\ tokenReqs'[Len(tokenReqs')].flight = NewRefresh.flight]_vars

\* Two calls of one instance, the second made after the first returned:
\* two refreshes, two requests, the ref clear again.
C35_Witness ==
  \E r1, r2 \in 1 .. Len(rcalls) :
    /\ r1 < r2
    /\ rcalls[r1].inst = rcalls[r2].inst
    /\ rcalls[r1].pc = "done" /\ rcalls[r2].pc = "done"
    /\ rcalls[r1].owner /\ rcalls[r2].owner
    /\ rcalls[r1].flight # rcalls[r2].flight
    /\ Cardinality(requestsOf(rcalls[r1].flight)) = 1
    /\ Cardinality(requestsOf(rcalls[r2].flight)) = 1
    /\ rcalls[r1].result # Null /\ rcalls[r2].result # Null
    /\ rcalls[r1].result # rcalls[r2].result
    /\ refreshPromiseRef[rcalls[r1].inst] = 0


(***************************************************************************)
(* The refresh token after an exchange, checked under SpecExchange.        *)
(***************************************************************************)
\* The exchange e succeeds in this step.
Succeeds(e) ==
  exch[e].pc = "awaitFetch" /\ exch'[e].pc = "done" /\ exch'[e].result = "ok"

\* C36: after a successful exchange the stored refresh token is the one that
\* the response of this exchange carried, and absent when it carried none:
\* never one left from an earlier session.
C36_RefreshTokenIsTheOneReturned ==
  [][\A e \in 1 .. Len(exch) :
       Succeeds(e) => store'.refresh \in {Null, RefreshToken(issued')}]_vars

\* What holds: the access token is the one returned, and a refresh token
\* that the response carries replaces the stored one.
ExchangeStoresWhatIsReturned ==
  [][\A e \in 1 .. Len(exch) :
       Succeeds(e)
         => /\ store'.access = AccessToken(issued')
            /\ store'.refresh \in {store.refresh, RefreshToken(issued')}]_vars


(***************************************************************************)
(* A retry that fails without a 401, checked under SpecSession.            *)
(***************************************************************************)
\* The retry of the call a settles in this step.
RetrySettles(a) == api[a].pc = "send2" /\ api'[a].pc = "done"

\* C37: when the first send of sendApiRequest signalled 401, the refresh
\* gave a token, and the retry fails with an error that does not signal 401,
\* the call throws the error of the retry, clearTokensAndRedirect is not
\* called, and the store, with the refreshed tokens, is left as it is.
C37_RetryOtherErrorPropagates ==
  [][\A a \in ApiCalls :
       (RetrySettles(a) /\ api'[a].retry = "error")
         => /\ api[a].first = "error401"
            /\ rcalls[refreshOf(a)].result # Null
            /\ api'[a].how = "thrown" /\ api'[a].attempt = 2
            /\ api'[a].logouts = 0
            /\ navCount' = navCount /\ notified' = notified
            /\ store' = store]_vars

C37_Witness ==
  \E a \in ApiCalls :
    /\ api[a].pc = "done" /\ api[a].first = "error401" /\ api[a].retry = "error"
    /\ api[a].how = "thrown" /\ api[a].attempt = 2 /\ api[a].logouts = 0
    /\ store.access = rcalls[refreshOf(a)].result
    /\ store.access # Null /\ store.refresh # Null
    /\ navCount = 0


(***************************************************************************)
(* A user-info request that fails after the exchange, checked under        *)
(* SpecCallback.                                                           *)
(***************************************************************************)
\* The call a threw an error that is401Error does not recognise: that of
\* its only send, that of its retry, or "Extension client not available".
threwOtherError(a) ==
  /\ api[a].pc = "done" /\ api[a].how = "thrown"
  /\ \/ api[a].sends = 0
     \/ api[a].sends = 1 /\ api[a].first = "error"
     \/ api[a].sends = 2 /\ api[a].retry = "error"

\* The firing run learns in this step that its user-info request failed.
UserInfoFails(run) == runs[run].pc = "userinfo" /\ runs'[run].pc = "failed"

\* C38: when the exchange has succeeded and the user-info request fails with
\* an error other than a 401, the controller goes to failed, the access
\* token stays in the store (isAuthenticated() is true) and the PKCE keys
\* stay deleted; no step that takes the controller to failed changes the
\* store.
C38_FailedKeepsTokens ==
  [][/\ \A run \in 1 .. Len(runs) :
          (UserInfoFails(run) /\ threwOtherError(userInfoOf(run)))
            => /\ exchangedOk(run)
               /\ Failed(view')
               /\ isAuthenticated'
               /\ store'.verifier = 0 /\ store'.state = 0 /\ store'.scope = Null
     /\ (~Failed(view) /\ Failed(view')) => store' = store]_vars

\* Under CallbackHandler: the extension answered the user-info request with
\* an error; the view shows the error, the tokens of the exchange are stored.
C38_Witness ==
  \E run \in 1 .. Len(runs) :
    /\ controller = "CallbackHandler"
    /\ runs[run].pc = "failed"
    /\ exchangedOk(run)
    /\ \E a \in controllerUserInfos :
         api[a].caller = run /\ threwOtherError(a) /\ api[a].sends = 1
    /\ view.status = "error"
    /\ store.access = AccessToken(1)
    /\ store.verifier = 0 /\ store.state = 0 /\ store.scope = Null

(***************************************************************************)
(* The claims about useAuth.refreshUserInfo.                               *)
(***************************************************************************)
\* The retried user-info request returned logged_in=false.
StillLoggedOut(u) ==
  uinfo[u].pc = "retry" /\ uinfo'[u].pc = "done" /\ uinfo'[u].retry = "logged_out"

\* refreshAccessToken returned null to refreshUserInfo.
NoNewToken(u) == uinfo[u].pc = "refreshing" /\ uinfo'[u].pc = "done"

\* No other refreshUserInfo call was made: what happens to the store and
\* the page is the doing of this call.
alone(u) == Len(uinfo) = 1

\* The clearTokensAndRedirect calls made by the call and by the
\* sendApiRequest calls it made.
logoutsOf(u) ==
  uinfo'[u].logouts + api[uinfo[u].a1].logouts
    + (IF uinfo[u].a2 = 0 THEN 0 ELSE api[uinfo[u].a2].logouts)

\* What the claim says of a retry that is logged out still: the state is
\* idle and unauthenticated, and the call has logged out once; it is the
\* only logout since the call began when no other call was made.
LogsOutOnce(u) ==
  StillLoggedOut(u) =>
    /\ authState'.status = "idle" /\ ~authState'.isAuthenticated
    /\ authState'.userInfo = Null
    /\ logoutsOf(u) = 1
    /\ navCount' = navCount + 1
    /\ alone(u) => navCount' = uinfo[u].nav0 + 1
    /\ store' = clearedStore(store)

\* What holds of a refresh that gave null: no logout since the call began,
\* none by this step, and the logged-out response is the userInfo.
StoresLoggedOutResponse(u) ==
  NoNewToken(u) =>
    /\ logoutsOf(u) = 0
    /\ navCount' = navCount
    /\ alone(u) => navCount' = uinfo[u].nav0
    /\ store' = store
    /\ authState'.userInfo = "logged_out"

\* The tokens the call's own refresh left of those that were stored when
\* the server said logged out.
afterOwnRefresh(u) ==
  LET before == [store EXCEPT !.access = uinfo[u].held[1],
                              !.refresh = uinfo[u].held[2]]
      after == refreshStore(before, flights[rcalls[uinfo[u].r].flight].resp)
  IN <<after.access, after.refresh>>

\* The call's refresh left the tokens as they were; they are the tokens
\* stored now when no other call was made.
tokensStay(u) ==
  /\ afterOwnRefresh(u) = uinfo[u].held
  /\ alone(u) => <<store'.access, store'.refresh>> = uinfo[u].held

\* The call's refresh removed both tokens; none is stored now when no other
\* call was made.
tokensRemoved(u) ==
  /\ afterOwnRefresh(u) = <<Null, Null>>
  /\ alone(u) => store'.access = Null /\ store'.refresh = Null

refreshWasRejected(u) == refreshRejected(flights[rcalls[uinfo[u].r].flight].resp)

LoggedOutTwice ==
  \E u \in 1 .. Len(uinfo) :
    /\ uinfo[u].pc = "done" /\ uinfo[u].outcome = "logout"
    /\ uinfo[u].retry = "logged_out"
    /\ navCount = 1

(***************************************************************************)
(* The claims about useExtension.                                          *)
(***************************************************************************)
LoadFails(d) == detects[d].pc = "loading" /\ detects'[d].pc = "done"

ServerStateFails(d) ==
  /\ detects[d].kind = "detect"
  /\ detects[d].pc = "serverState"
  /\ detects'[d].result = "serverState failed"

\* No other detect was called: nothing but this detection sets the status.
onlyDetect(d) == \A e \in 1 .. Len(detects) : detects[e].kind = "detect" => e = d

ReadyHasClient == extension.status = "ready" => extension.client # 0

FailedDetectClears(d) ==
  LoadFails(d) =>
    /\ extension'.client = 0
    /\ extension'.serverState = 0
    /\ extension'.status = IF detects'[d].result = "ExtensionNotFoundError"
                              THEN "not-found" ELSE "error"

ServerStateFailureKeepsStatus(d) ==
  ServerStateFails(d) =>
    /\ extension'.status = extension.status
    /\ extension'.client = extension.client
    /\ extension.status = "ready" => extension'.status = "ready"
    /\ onlyDetect(d) => extension'.status = "ready"

\* C40: in every state of useExtension, however detect and retry calls
\* overlap, status ready implies a client that is not null; a detect that
\* fails sets client and serverState to null and the status to not-found
\* when the extension was not found and to error otherwise; and a
\* serverState() that fails after a detection succeeded leaves the status
\* as it was: ready stays ready, and the status is ready when no other
\* detect was called.
C40_ReadyImpliesClient ==
  /\ []ReadyHasClient
  /\ [][\A d \in 1 .. Len(detects) :
          FailedDetectClears(d) /\ ServerStateFailureKeepsStatus(d)]_vars

\* Two detections overlapped or followed each other: one failed, the other
\* found the extension, its serverState() failed, and the hook is ready.
C40_Witness ==
  \E d, e \in 1 .. Len(detects) :
    /\ detects[d].result = "ExtensionTimeoutError"
    /\ detects[e].kind = "detect" /\ detects[e].result = "serverState failed"
    /\ extension.status = "ready" /\ extension.client = e
    /\ extension.serverState = 0

=============================================================================
